---- MODULE Spec2Model ----
(***************************************************************************)
(* Model of shared_services: the email -> company classification rules and *)
(* the insertion-ordered result cache of CompanyDetectionService            *)
(* (company_detection.detector), run by one caller or by two callers whose *)
(* statements interleave; the email operations of ResendService            *)
(* (email.resend_service); and the magic-link and profile operations of    *)
(* supabase_auth.magic_link and supabase_auth.magic_link_old.              *)
(*                                                                         *)
(* Python strings are modelled as sequences of one-character strings, so   *)
(* that lower-casing, regular-expression matching, capitalisation and the  *)
(* suffix/substring tests are computed character by character.  Optional   *)
(* values are None (the empty tuple) or Some(v) (a one-element tuple).     *)
(* Confidence is kept in tenths (0.9 is 9) so that it stays an integer.    *)
(***************************************************************************)
EXTENDS Integers, Sequences, FiniteSets, TLC

VARIABLES cache, metrics, allocs, ret, calls, hitCalls, warmed,
          users, out, pc, frame

vars == <<cache, metrics, allocs, ret, calls, hitCalls, warmed,
          users, out, pc, frame>>

(* the state of the detector, of the email and auth services, and of the  *)
(* callers that run detect_from_email concurrently                        *)
detectorVars == <<cache, metrics, allocs, ret, calls, hitCalls, warmed>>
serviceVars == <<users, out>>
threadVars == <<pc, frame>>

-----------------------------------------------------------------------------
(* Optional[...] values *)

None == << >>

Some(v) == <<v>>

-----------------------------------------------------------------------------
(* Characters and the str methods the detector uses *)

UpperChars == <<"A","B","C","D","E","F","G","H","I","J","K","L","M",
                "N","O","P","Q","R","S","T","U","V","W","X","Y","Z">>

LowerChars == <<"a","b","c","d","e","f","g","h","i","j","k","l","m",
                "n","o","p","q","r","s","t","u","v","w","x","y","z">>

Digits == {"0","1","2","3","4","5","6","7","8","9"}

Range(s) == {s[i] : i \in 1..Len(s)}

Min(S) == CHOOSE x \in S : \A y \in S : x <= y

(* str.lower() and str.upper() on one character *)
LowerChar(c) ==
    IF \E i \in 1..26 : UpperChars[i] = c
    THEN LowerChars[CHOOSE i \in 1..26 : UpperChars[i] = c]
    ELSE c

UpperChar(c) ==
    IF \E i \in 1..26 : LowerChars[i] = c
    THEN UpperChars[CHOOSE i \in 1..26 : LowerChars[i] = c]
    ELSE c

lower(s) == [i \in 1..Len(s) |-> LowerChar(s[i])]

upper(s) == [i \in 1..Len(s) |-> UpperChar(s[i])]

(* str.capitalize(): first character upper-cased, the rest lower-cased *)
capitalize(s) ==
    [i \in 1..Len(s) |-> IF i = 1 THEN UpperChar(s[i]) ELSE LowerChar(s[i])]

(* str.endswith(suf) *)
endswith(s, suf) ==
    /\ Len(suf) <= Len(s)
    /\ SubSeq(s, Len(s) - Len(suf) + 1, Len(s)) = suf

(* str.startswith(pre) *)
startswith(s, pre) ==
    /\ Len(pre) <= Len(s)
    /\ SubSeq(s, 1, Len(pre)) = pre

(* the Python test  sub in s  on strings *)
contains(s, sub) ==
    \E i \in 1..(Len(s) - Len(sub) + 1) : SubSeq(s, i, i + Len(sub) - 1) = sub

(* str.replace(old, new) for a one-character old and new *)
replace(s, old, new) == [i \in 1..Len(s) |-> IF s[i] = old THEN new ELSE s[i]]

(* str.split(): the maximal runs of non-blank characters, in order *)
RECURSIVE split(_)
split(s) ==
    IF s = << >> THEN << >>
    ELSE IF Head(s) = " " THEN split(Tail(s))
    ELSE LET stops == {i \in 1..Len(s) : s[i] = " "}
             n     == IF stops = {} THEN Len(s) ELSE Min(stops) - 1
         IN  <<SubSeq(s, 1, n)>> \o split(SubSeq(s, n + 1, Len(s)))

(* ' '.join(words) *)
RECURSIVE join(_)
join(words) ==
    IF words = << >> THEN << >>
    ELSE IF Len(words) = 1 THEN words[1]
    ELSE words[1] \o <<" ">> \o join(Tail(words))

(* the characters str.strip() removes *)
Whitespace == {" ", "\t", "\n"}

(* str.strip() *)
strip(s) ==
    LET kept == {i \in 1..Len(s) : s[i] \notin Whitespace}
    IN  IF kept = {} THEN << >>
        ELSE SubSeq(s, Min(kept), CHOOSE i \in kept : \A j \in kept : j <= i)

(* str.split(sep) for a one-character separator: the pieces between the    *)
(* separators, empty pieces included; never an empty list                  *)
RECURSIVE split_sep(_, _)
split_sep(s, sep) ==
    LET stops == {i \in 1..Len(s) : s[i] = sep}
    IN  IF stops = {} THEN <<s>>
        ELSE <<SubSeq(s, 1, Min(stops) - 1)>>
             \o split_sep(SubSeq(s, Min(stops) + 1, Len(s)), sep)

(* re.sub(r'<pattern>$', '', s) for a pattern anchored at the end of the      *)
(* string: the match starts at the leftmost position from which the rest of  *)
(* s matches (starts holds every such position), and everything from there   *)
(* on is removed.                                                            *)
Suffix(s, i) == SubSeq(s, i, Len(s))

ReSubToEnd(s, starts) ==
    IF starts = {} THEN s ELSE SubSeq(s, 1, Min(starts) - 1)

(* re.sub(r'^(p1|p2|...)', '', s): the first alternative that is a prefix *)
ReSubPrefix(s, alternatives) ==
    LET hits == {k \in 1..Len(alternatives) : startswith(s, alternatives[k])}
    IN  IF hits = {} THEN s
        ELSE SubSeq(s, Len(alternatives[Min(hits)]) + 1, Len(s))

(* dict.get(key, default) on a table kept as a set of [key, value] rows *)
Get(table, key, default) ==
    IF \E row \in table : row.key = key
    THEN (CHOOSE row \in table : row.key = key).value
    ELSE default

-----------------------------------------------------------------------------
(* The static tables of CompanyDetectionService.__init__ *)

personal_providers ==
    { <<"g","m","a","i","l",".","c","o","m">>,
      <<"y","a","h","o","o",".","c","o","m">>,
      <<"o","u","t","l","o","o","k",".","c","o","m">>,
      <<"h","o","t","m","a","i","l",".","c","o","m">>,
      <<"i","c","l","o","u","d",".","c","o","m">>,
      <<"a","o","l",".","c","o","m">>,
      <<"p","r","o","t","o","n","m","a","i","l",".","c","o","m">>,
      <<"y","a","n","d","e","x",".","c","o","m">>,
      <<"m","a","i","l",".","r","u">>,
      <<"m","e",".","c","o","m">>,
      <<"l","i","v","e",".","c","o","m">>,
      <<"m","s","n",".","c","o","m">>,
      <<"y","a","h","o","o",".","c","o",".","u","k">>,
      <<"y","a","h","o","o",".","c","a">>,
      <<"y","a","h","o","o",".","f","r">>,
      <<"g","o","o","g","l","e","m","a","i","l",".","c","o","m">>,
      <<"o","u","t","l","o","o","k",".","c","o",".","u","k">>,
      <<"b","t","i","n","t","e","r","n","e","t",".","c","o","m">>,
      <<"s","k","y",".","c","o","m">> }

corporate_info ==
    { [key |-> <<"m","i","c","r","o","s","o","f","t",".","c","o","m">>,
       value |-> [name |-> <<"M","i","c","r","o","s","o","f","t">>,
                  industry |-> "Technology"]],
      [key |-> <<"a","p","p","l","e",".","c","o","m">>,
       value |-> [name |-> <<"A","p","p","l","e">>,
                  industry |-> "Technology"]],
      [key |-> <<"g","o","o","g","l","e",".","c","o","m">>,
       value |-> [name |-> <<"G","o","o","g","l","e">>,
                  industry |-> "Technology"]],
      [key |-> <<"a","m","a","z","o","n",".","c","o","m">>,
       value |-> [name |-> <<"A","m","a","z","o","n">>,
                  industry |-> "Technology"]],
      [key |-> <<"m","e","t","a",".","c","o","m">>,
       value |-> [name |-> <<"M","e","t","a">>,
                  industry |-> "Technology"]],
      [key |-> <<"f","a","c","e","b","o","o","k",".","c","o","m">>,
       value |-> [name |-> <<"F","a","c","e","b","o","o","k">>,
                  industry |-> "Technology"]],
      [key |-> <<"t","e","s","l","a",".","c","o","m">>,
       value |-> [name |-> <<"T","e","s","l","a">>,
                  industry |-> "Automotive"]],
      [key |-> <<"n","e","t","f","l","i","x",".","c","o","m">>,
       value |-> [name |-> <<"N","e","t","f","l","i","x">>,
                  industry |-> "Entertainment"]],
      [key |-> <<"s","a","l","e","s","f","o","r","c","e",".","c","o","m">>,
       value |-> [name |-> <<"S","a","l","e","s","f","o","r","c","e">>,
                  industry |-> "Technology"]],
      [key |-> <<"o","r","a","c","l","e",".","c","o","m">>,
       value |-> [name |-> <<"O","r","a","c","l","e">>,
                  industry |-> "Technology"]],
      [key |-> <<"i","b","m",".","c","o","m">>,
       value |-> [name |-> <<"I","B","M">>,
                  industry |-> "Technology"]],
      [key |-> <<"a","d","o","b","e",".","c","o","m">>,
       value |-> [name |-> <<"A","d","o","b","e">>,
                  industry |-> "Technology"]],
      [key |-> <<"s","h","o","p","i","f","y",".","c","o","m">>,
       value |-> [name |-> <<"S","h","o","p","i","f","y">>,
                  industry |-> "E-commerce"]],
      [key |-> <<"s","t","r","i","p","e",".","c","o","m">>,
       value |-> [name |-> <<"S","t","r","i","p","e">>,
                  industry |-> "Financial Services"]],
      [key |-> <<"a","n","t","h","r","o","p","i","c",".","c","o","m">>,
       value |-> [name |-> <<"A","n","t","h","r","o","p","i","c">>,
                  industry |-> "AI/Technology"]],
      [key |-> <<"o","p","e","n","a","i",".","c","o","m">>,
       value |-> [name |-> <<"O","p","e","n","A","I">>,
                  industry |-> "AI/Technology"]] }

(* the providers table of _get_personal_provider_name *)
providers ==
    { [key |-> <<"g","m","a","i","l",".","c","o","m">>,
       value |-> <<"G","m","a","i","l">>],
      [key |-> <<"y","a","h","o","o",".","c","o","m">>,
       value |-> <<"Y","a","h","o","o">>],
      [key |-> <<"o","u","t","l","o","o","k",".","c","o","m">>,
       value |-> <<"O","u","t","l","o","o","k">>],
      [key |-> <<"h","o","t","m","a","i","l",".","c","o","m">>,
       value |-> <<"H","o","t","m","a","i","l">>],
      [key |-> <<"i","c","l","o","u","d",".","c","o","m">>,
       value |-> <<"i","C","l","o","u","d">>],
      [key |-> <<"a","o","l",".","c","o","m">>,
       value |-> <<"A","O","L">>] }

(* the mappings table of _extract_university_name *)
mappings ==
    { [key |-> <<"s","t","a","n","f","o","r","d">>,
       value |-> <<"S","t","a","n","f","o","r","d"," ","U","n","i","v","e","r","s","i","t","y">>],
      [key |-> <<"m","i","t">>,
       value |-> <<"M","I","T">>],
      [key |-> <<"h","a","r","v","a","r","d">>,
       value |-> <<"H","a","r","v","a","r","d"," ","U","n","i","v","e","r","s","i","t","y">>],
      [key |-> <<"b","e","r","k","e","l","e","y">>,
       value |-> <<"U","C"," ","B","e","r","k","e","l","e","y">>],
      [key |-> <<"o","x","f","o","r","d">>,
       value |-> <<"O","x","f","o","r","d"," ","U","n","i","v","e","r","s","i","t","y">>],
      [key |-> <<"c","a","m","b","r","i","d","g","e">>,
       value |-> <<"C","a","m","b","r","i","d","g","e"," ","U","n","i","v","e","r","s","i","t","y">>] }

-----------------------------------------------------------------------------
(* The classification rules of detect_from_email and its helpers *)

(* the character class [a-zA-Z0-9.-] *)
IsDomainChar(c) ==
    \/ c \in Range(LowerChars)
    \/ c \in Range(UpperChars)
    \/ c \in Digits
    \/ c \in {".", "-"}

(* domain_match with the quantifier + of the pattern written as a star:   *)
(* an empty domain after the first '@' also matches                       *)
domain_match_Star(email) ==
    LET ats == {i \in 1..Len(email) : email[i] = "@"}
    IN  IF ats = {} THEN None
        ELSE LET i    == Min(ats)
                 ends == {j \in i..Len(email) :
                             /\ \A k \in (i + 1)..j : IsDomainChar(email[k])
                             /\ (j = Len(email) \/ ~IsDomainChar(email[j + 1]))}
             IN  Some(SubSeq(email, i + 1, Min(ends)))

(* re.search(r'@([a-zA-Z0-9.-]+)', email): group 1 of the leftmost match,  *)
(* the longest run of domain characters after the first '@' that has one,  *)
(* or None when there is no match.                                         *)
domain_match(email) ==
    LET ats == {i \in 1..(Len(email) - 1) :
                    email[i] = "@" /\ IsDomainChar(email[i + 1])}
    IN  IF ats = {} THEN None
        ELSE LET i    == Min(ats)
                 ends == {j \in (i + 1)..Len(email) :
                             /\ \A k \in (i + 1)..j : IsDomainChar(email[k])
                             /\ (j = Len(email) \/ ~IsDomainChar(email[j + 1]))}
             IN  Some(SubSeq(email, i + 1, Min(ends)))

_get_personal_provider_name(domain) == Get(providers, domain, domain)

(* the pattern \.(edu|ac\.uk|ac\..+)$ matched against a whole suffix *)
MatchesEduSuffix(t) ==
    \/ t = <<".","e","d","u">>
    \/ t = <<".","a","c",".","u","k">>
    \/ (startswith(t, <<".","a","c",".">>) /\ Len(t) >= 5)

(* _extract_university_name looking the capitalised name up as it is *)
_extract_university_name_NoLower(domain) ==
    LET starts   == {i \in 1..Len(domain) : MatchesEduSuffix(Suffix(domain, i))}
        stripped == ReSubToEnd(domain, starts)
        spaced   == replace(stripped, ".", " ")
        words    == split(spaced)
        name     == join([k \in 1..Len(words) |-> capitalize(words[k])])
    IN  Get(mappings, name, name \o <<" ","U","n","i","v","e","r","s","i","t","y">>)

_extract_university_name(domain) ==
    LET starts   == {i \in 1..Len(domain) : MatchesEduSuffix(Suffix(domain, i))}
        stripped == ReSubToEnd(domain, starts)
        spaced   == replace(stripped, ".", " ")
        words    == split(spaced)
        name     == join([k \in 1..Len(words) |-> capitalize(words[k])])
    IN  Get(mappings, lower(name), name \o <<" ","U","n","i","v","e","r","s","i","t","y">>)

(* the pattern \.(gov|mil)$ matched against a whole suffix *)
MatchesGovSuffix(t) == t = <<".","g","o","v">> \/ t = <<".","m","i","l">>

(* _extract_government_name testing 'state' before 'nasa' *)
_extract_government_name_StateFirst(domain) ==
    IF contains(domain, <<"s","t","a","t","e">>) THEN <<"U","S"," ","S","t","a","t","e"," ","D","e","p","a","r","t","m","e","n","t">>
    ELSE IF contains(domain, <<"n","a","s","a">>) THEN <<"N","A","S","A">>
    ELSE IF contains(domain, <<"a","r","m","y">>) THEN <<"U","S"," ","A","r","m","y">>
    ELSE IF contains(domain, <<"n","a","v","y">>) THEN <<"U","S"," ","N","a","v","y">>
    ELSE IF contains(domain, <<"a","i","r","f","o","r","c","e">>) THEN <<"U","S"," ","A","i","r"," ","F","o","r","c","e">>
    ELSE LET starts == {i \in 1..Len(domain) : MatchesGovSuffix(Suffix(domain, i))}
         IN  upper(replace(ReSubToEnd(domain, starts), ".", " "))

_extract_government_name(domain) ==
    IF contains(domain, <<"n","a","s","a">>) THEN <<"N","A","S","A">>
    ELSE IF contains(domain, <<"s","t","a","t","e">>) THEN <<"U","S"," ","S","t","a","t","e"," ","D","e","p","a","r","t","m","e","n","t">>
    ELSE IF contains(domain, <<"a","r","m","y">>) THEN <<"U","S"," ","A","r","m","y">>
    ELSE IF contains(domain, <<"n","a","v","y">>) THEN <<"U","S"," ","N","a","v","y">>
    ELSE IF contains(domain, <<"a","i","r","f","o","r","c","e">>) THEN <<"U","S"," ","A","i","r"," ","F","o","r","c","e">>
    ELSE LET starts == {i \in 1..Len(domain) : MatchesGovSuffix(Suffix(domain, i))}
         IN  upper(replace(ReSubToEnd(domain, starts), ".", " "))

(* the pattern \.(com|org|net|co|io|ai|tech|inc)$ matched against a suffix *)
MatchesTldSuffix(t) ==
    t \in { <<".","c","o","m">>, <<".","o","r","g">>, <<".","n","e","t">>, <<".","c","o">>,
            <<".","i","o">>, <<".","a","i">>, <<".","t","e","c","h">>, <<".","i","n","c">> }

(* the pattern \.(co\.uk|com\.au|co\.in)$ matched against a suffix *)
MatchesCountrySuffix(t) ==
    t \in { <<".","c","o",".","u","k">>, <<".","c","o","m",".","a","u">>, <<".","c","o",".","i","n">> }

(* _extract_company_from_domain accepting a name of one character *)
_extract_company_from_domain_OneChar(domain) ==
    LET unprefixed == ReSubPrefix(domain, << <<"w","w","w",".">>, <<"m","a","i","l",".">>, <<"e","m","a","i","l",".">> >>)
        untld      ==
            ReSubToEnd(unprefixed,
                       {i \in 1..Len(unprefixed) :
                            MatchesTldSuffix(Suffix(unprefixed, i))})
        clean_domain ==
            ReSubToEnd(untld,
                       {i \in 1..Len(untld) :
                            MatchesCountrySuffix(Suffix(untld, i))})
    IN  IF Len(clean_domain) < 1 THEN None
        ELSE Some(<<UpperChar(clean_domain[1])>> \o Tail(clean_domain))

_extract_company_from_domain(domain) ==
    LET unprefixed == ReSubPrefix(domain, << <<"w","w","w",".">>, <<"m","a","i","l",".">>, <<"e","m","a","i","l",".">> >>)
        untld      ==
            ReSubToEnd(unprefixed,
                       {i \in 1..Len(unprefixed) :
                            MatchesTldSuffix(Suffix(unprefixed, i))})
        clean_domain ==
            ReSubToEnd(untld,
                       {i \in 1..Len(untld) :
                            MatchesCountrySuffix(Suffix(untld, i))})
    IN  IF Len(clean_domain) < 2 THEN None
        ELSE Some(<<UpperChar(clean_domain[1])>> \o Tail(clean_domain))

(* _infer_industry testing the technology keywords before the financial ones *)
_infer_industry_TechFirst(domain) ==
    IF \/ contains(domain, <<"t","e","c","h">>)
       \/ contains(domain, <<"a","i">>)
       \/ contains(domain, <<"s","o","f","t","w","a","r","e">>)
        THEN Some("Technology")
    ELSE IF contains(domain, <<"b","a","n","k">>) \/ contains(domain, <<"f","i","n","a","n","c","e">>)
        THEN Some("Financial Services")
    ELSE IF \/ contains(domain, <<"h","e","a","l","t","h">>)
            \/ contains(domain, <<"m","e","d","i","c","a","l">>)
            \/ contains(domain, <<"p","h","a","r","m","a">>)
        THEN Some("Healthcare")
    ELSE IF contains(domain, <<"c","o","n","s","u","l","t","i","n","g">>) THEN Some("Consulting")
    ELSE IF contains(domain, <<"l","a","w">>) \/ contains(domain, <<"l","e","g","a","l">>)
        THEN Some("Legal Services")
    ELSE None

_infer_industry(domain) ==
    IF contains(domain, <<"b","a","n","k">>) \/ contains(domain, <<"f","i","n","a","n","c","e">>)
        THEN Some("Financial Services")
    ELSE IF \/ contains(domain, <<"t","e","c","h">>)
            \/ contains(domain, <<"a","i">>)
            \/ contains(domain, <<"s","o","f","t","w","a","r","e">>)
        THEN Some("Technology")
    ELSE IF \/ contains(domain, <<"h","e","a","l","t","h">>)
            \/ contains(domain, <<"m","e","d","i","c","a","l">>)
            \/ contains(domain, <<"p","h","a","r","m","a">>)
        THEN Some("Healthcare")
    ELSE IF contains(domain, <<"c","o","n","s","u","l","t","i","n","g">>) THEN Some("Consulting")
    ELSE IF contains(domain, <<"l","a","w">>) \/ contains(domain, <<"l","e","g","a","l">>)
        THEN Some("Legal Services")
    ELSE None

(* CompanyDetectionResult(...); industry, website and metadata default to None *)
CompanyDetectionResult(company, type, confidence, industry, website, metadata) ==
    [industry |-> industry, company |-> company, type |-> type,
     confidence |-> confidence, website |-> website, metadata |-> metadata]

(* the conditions of the four rule checks, on the lower-cased domain *)
IsPersonal(domain) == domain \in personal_providers

IsEducational(domain) ==
    \/ endswith(domain, <<".","e","d","u">>)
    \/ contains(domain, <<".","e","d","u",".">>)
    \/ endswith(domain, <<".","a","c",".","u","k">>)
    \/ contains(domain, <<".","a","c",".">>)

IsGovernment(domain) ==
    \/ endswith(domain, <<".","g","o","v">>)
    \/ endswith(domain, <<".","m","i","l">>)
    \/ contains(domain, <<".","g","o","v",".">>)

IsKnownCorporate(domain) == \E row \in corporate_info : row.key = domain

(* Python truthiness of an Optional[str]: None and '' are false *)
Truthy(opt) == opt # None /\ opt[1] # << >>

(* the domain taken from the match without lower-casing it *)
Domain_NotLowered(m) == m[1]

(* domain = domain_match.group(1).lower() *)
Domain(m) == lower(m[1])

(* the result built by each branch of detect_from_email *)
NoDomainResult ==
    CompanyDetectionResult(None, "unknown", 0, None, None, None)

PersonalResult(domain) ==
    CompanyDetectionResult(
        Some(_get_personal_provider_name(domain)), "personal", 10,
        None, None, Some([provider |-> domain]))

EducationalResult(domain) ==
    CompanyDetectionResult(
        Some(_extract_university_name(domain)), "educational", 9,
        Some("Education"), Some(domain), None)

GovernmentResult(domain) ==
    CompanyDetectionResult(
        Some(_extract_government_name(domain)), "government", 9,
        Some("Government"), Some(domain), None)

(* the known-corporate result without the industry of the table entry *)
KnownCorporateResult_NoIndustry(domain) ==
    LET info == Get(corporate_info, domain, None)
    IN  CompanyDetectionResult(
            Some(info.name), "corporate", 8,
            None, Some(domain), None)

KnownCorporateResult(domain) ==
    LET info == Get(corporate_info, domain, None)
    IN  CompanyDetectionResult(
            Some(info.name), "corporate", 8,
            Some(info.industry), Some(domain), None)

(* the fallback result with its confidence written as a percentage *)
FallbackResult_Percent(domain) ==
    LET extracted_name == _extract_company_from_domain(domain)
    IN  CompanyDetectionResult(
            extracted_name, "corporate",
            IF Truthy(extracted_name) THEN 60 ELSE 20,
            _infer_industry(domain),
            IF Truthy(extracted_name) THEN Some(domain) ELSE None,
            None)

FallbackResult(domain) ==
    LET extracted_name == _extract_company_from_domain(domain)
    IN  CompanyDetectionResult(
            extracted_name, "corporate",
            IF Truthy(extracted_name) THEN 6 ELSE 2,
            _infer_industry(domain),
            IF Truthy(extracted_name) THEN Some(domain) ELSE None,
            None)

(* the rules with the government check moved before the educational check *)
Classify_GovernmentFirst(email) ==
    LET m == domain_match(email)
    IN  IF m = None THEN NoDomainResult
        ELSE LET domain == Domain(m)
             IN  IF IsPersonal(domain) THEN PersonalResult(domain)
                 ELSE IF IsGovernment(domain) THEN GovernmentResult(domain)
                 ELSE IF IsEducational(domain) THEN EducationalResult(domain)
                 ELSE IF IsKnownCorporate(domain) THEN KnownCorporateResult(domain)
                 ELSE FallbackResult(domain)

(* The result detect_from_email builds on a cache miss (lines 84-151): the *)
(* rules in source order, each returning as soon as its condition holds.   *)
Classify(email) ==
    LET m == domain_match(email)
    IN  IF m = None THEN NoDomainResult
        ELSE LET domain == Domain(m)
             IN  IF IsPersonal(domain) THEN PersonalResult(domain)
                 ELSE IF IsEducational(domain) THEN EducationalResult(domain)
                 ELSE IF IsGovernment(domain) THEN GovernmentResult(domain)
                 ELSE IF IsKnownCorporate(domain) THEN KnownCorporateResult(domain)
                 ELSE FallbackResult(domain)

-----------------------------------------------------------------------------
(* The service state: self.cache and self.metrics *)

(* The size test of _cache_result:  if len(self.cache) > 1000 *)
CacheLimit == 1000

(* Bounds of the model *)
MaxCalls == 3

MaxElapsed == 1

MaxClassifyCalls == 2

MaxRuleCalls == 2
MaxResponses == 2
MaxBatch == 2
MaxNameLen == 4
MaxThreadCalls == 2

(* A Python dict keeps its keys in insertion order.  The cache is the      *)
(* sequence of its entries in that order; each entry holds the key, the    *)
(* stored CompanyDetectionResult and the identity (oid) of that object.    *)
Keys(d) == {d[i].key : i \in 1..Len(d)}

IndexOf(d, k) == CHOOSE i \in 1..Len(d) : d[i].key = k

(* d[k] = v: a present key keeps its position, a new key goes last *)
DictSet(d, k, entry) ==
    IF k \in Keys(d)
    THEN [d EXCEPT ![IndexOf(d, k)] = entry]
    ELSE Append(d, entry)

(* first_key = next(iter(d)); del d[first_key] *)
DelFirst(d) == Tail(d)

(* _cache_result without the total_detections increment *)
_cache_result_NotCounted(st, email, result, oid, elapsed) ==
    LET m1 == [st.metrics EXCEPT
                   !.total_response_time = @ + elapsed,
                   !.cache_size = Len(st.cache)]
        c1 == IF Len(st.cache) > CacheLimit THEN DelFirst(st.cache) ELSE st.cache
        c2 == DictSet(c1, email, [key |-> email, value |-> result, oid |-> oid])
    IN  [cache   |-> c2,
         metrics |-> m1,
         allocs  |-> oid,
         ret     |-> [value |-> Some(result), email |-> email, oid |-> oid,
                      op |-> "detect", hit |-> FALSE]]

(* _cache_result(email, result, start_time), with the freshly built result *)
(* object oid and the measured response time elapsed (milliseconds).       *)
_cache_result(st, email, result, oid, elapsed) ==
    LET m1 == [st.metrics EXCEPT
                   !.total_detections = @ + 1,
                   !.total_response_time = @ + elapsed,
                   !.cache_size = Len(st.cache)]
        c1 == IF Len(st.cache) > CacheLimit THEN DelFirst(st.cache) ELSE st.cache
        c2 == DictSet(c1, email, [key |-> email, value |-> result, oid |-> oid])
    IN  [cache   |-> c2,
         metrics |-> m1,
         allocs  |-> oid,
         ret     |-> [value |-> Some(result), email |-> email, oid |-> oid,
                      op |-> "detect", hit |-> FALSE]]

(* detect_from_email whose hit branch does not count the hit *)
detect_from_email_HitNotCounted(st, email, elapsed) ==
    IF email \in Keys(st.cache)
    THEN LET entry == st.cache[IndexOf(st.cache, email)]
         IN  [cache   |-> st.cache,
              metrics |-> [st.metrics EXCEPT !.total_detections = @ + 1],
              allocs  |-> st.allocs,
              ret     |-> [value |-> Some(entry.value), email |-> email,
                           oid |-> entry.oid,
                           op |-> "detect", hit |-> TRUE]]
    ELSE _cache_result(st, email, Classify(email), st.allocs + 1, elapsed)

(* detect_from_email whose hit branch returns the oldest cached result *)
detect_from_email_HitFirstEntry(st, email, elapsed) ==
    IF email \in Keys(st.cache)
    THEN LET entry == st.cache[1]
         IN  [cache   |-> st.cache,
              metrics |-> [st.metrics EXCEPT !.cache_hits = @ + 1,
                                             !.total_detections = @ + 1],
              allocs  |-> st.allocs,
              ret     |-> [value |-> Some(entry.value), email |-> email,
                           oid |-> entry.oid,
                           op |-> "detect", hit |-> TRUE]]
    ELSE _cache_result(st, email, Classify(email), st.allocs + 1, elapsed)

(* detect_from_email(email): the state after the call and what it returns *)
detect_from_email(st, email, elapsed) ==
    IF email \in Keys(st.cache)
    THEN LET entry == st.cache[IndexOf(st.cache, email)]
         IN  [cache   |-> st.cache,
              metrics |-> [st.metrics EXCEPT !.cache_hits = @ + 1,
                                             !.total_detections = @ + 1],
              allocs  |-> st.allocs,
              ret     |-> [value |-> Some(entry.value), email |-> email,
                           oid |-> entry.oid,
                           op |-> "detect", hit |-> TRUE]]
    ELSE _cache_result(st, email, Classify(email), st.allocs + 1, elapsed)

(* clear_cache resetting every metric *)
clear_cache_ResetsCounters(st) ==
    [cache   |-> << >>,
     metrics |-> [total_response_time |-> 0, cache_size |-> 0,
                  total_detections |-> 0, cache_hits |-> 0],
     allocs  |-> st.allocs,
     ret     |-> [value |-> None, email |-> << >>, oid |-> 0,
                  op |-> "clear", hit |-> FALSE]]

(* clear_cache() *)
clear_cache(st) ==
    [cache   |-> << >>,
     metrics |-> [st.metrics EXCEPT !.cache_size = 0],
     allocs  |-> st.allocs,
     ret     |-> [value |-> None, email |-> << >>, oid |-> 0,
                  op |-> "clear", hit |-> FALSE]]

-----------------------------------------------------------------------------
(* Inputs *)

RECURSIVE Decimal(_)
Decimal(n) ==
    LET d == <<"0","1","2","3","4","5","6","7","8","9">>[(n % 10) + 1]
    IN  IF n < 10 THEN <<d>> ELSE Append(Decimal(n \div 10), d)

(* the n-th address of a bulk run: u<n>@ab.io *)
Filler(n) == <<"u">> \o Decimal(n) \o <<"@","a","b",".","i","o">>

(* the addresses single calls are made with *)
Emails ==
    { Filler(1), Filler(2),
      <<"b","o","b">>,
      <<"A","l","@","G","m","a","i","l",".","C","O","M">>,
      <<"s","@","m","i","t",".","e","d","u">>,
      <<"j","o","@","c","o","r","p",".","i","o">> }

(* the addresses the classification rules are exercised with *)
ClassifyEmails ==
    { << >>,
      <<"a","@">>,
      <<"a","@"," ","b",".","c","o">>,
      <<"A","l","@","G","m","a","i","l",".","C","O","M">>,
      <<"a","l","@","g","m","a","i","l",".","c","o","m">>,
      <<"x","@","M","a","i","l",".","R","U">>,
      <<"s","@","m","i","t",".","e","d","u">>,
      <<"s","@","s","t","a","n","f","o","r","d",".","e","d","u">>,
      <<"s","@","u","-","t","o","k","y","o",".","a","c",".","j","p">>,
      <<"s","@","u","n","s","w",".","e","d","u",".","a","u">>,
      <<"a","@","x",".","a","c",".","g","o","v">>,
      <<"a","@","x",".","g","o","v",".","e","d","u">>,
      <<"j","@","n","a","s","a",".","g","o","v">>,
      <<"j","@","c","d","c",".","g","o","v">>,
      <<"p","@","m","i","c","r","o","s","o","f","t",".","c","o","m">>,
      <<"p","@","m","a","i","l",".","m","i","c","r","o","s","o","f","t",".","c","o","m">>,
      <<"j","a","n","e","@","m","y","u","n","k","n","o","w","n","s","t","a","r","t","u","p",".","i","o">>,
      <<"j","@","x",".","i","o">> }

(* the addresses the government, known-corporate and fallback rules are     *)
(* exercised with                                                          *)
RuleEmails ==
    { <<"j","@","s","t","a","t","e",".","n","a","s","a",".","g","o","v">>,
      <<"j","@","n","a","v","y",".","a","r","m","y",".","m","i","l">>,
      <<"j","@","s","u","b",".","c","d","c",".","g","o","v">>,
      <<"j","@","x",".","g","o","v",".","u","k">>,
      <<"p","@","M","I","C","R","O","S","O","F","T",".","c","o","m">>,
      <<"p","@","m","a","i","l",".","m","i","c","r","o","s","o","f","t",".","c","o","m">>,
      <<"p","@","s","t","r","i","p","e",".","c","o","m">>,
      <<"j","a","n","e","@","m","y","u","n","k","n","o","w","n","s","t","a","r","t","u","p",".","i","o">>,
      <<"j","@","x",".","i","o">>,
      <<"j","@","m","a","i","l",".","a","c","m","e",".","c","o",".","u","k">>,
      <<"j","@","t","e","c","h","b","a","n","k",".","c","o",".","u","k">>,
      <<"j","@","l","a","w","c","o","n","s","u","l","t","i","n","g",".","o","r","g">> }

-----------------------------------------------------------------------------
(* The email service: shared_services.email.resend_service                 *)
(*                                                                         *)
(* An operation that calls an external provider is given the answers the   *)
(* provider would give to its first, second, ... call; it reports the      *)
(* requests it made, the value it returned, and whether an exception left  *)
(* it instead.                                                             *)

(* Python truthiness of an Optional[str] whose text is not inspected *)
TruthyText(opt) == opt # None /\ opt[1] # ""

(* the operation returned value after making the given requests *)
Returns(value, requests) ==
    [value |-> value, requests |-> requests, raised |-> FALSE]

(* an exception with this message left the operation *)
Raises(message, requests) ==
    [value |-> message, requests |-> requests, raised |-> TRUE]

(* the dataclass EmailResult *)
EmailResult(success, message_id, error) ==
    [success |-> success, message_id |-> message_id, error |-> error]

(* if html: params["html"] = html, and the same for text: a body that is  *)
(* None or empty is left out of the request, written None here            *)
Param(body) == IF TruthyText(body) THEN body ELSE None

(* send_email without the test that a body is present *)
send_email_Unchecked(to, html, text, responses) ==
    LET params == [to |-> <<to>>, html |-> Param(html), text |-> Param(text)]
        response == responses[1]
    IN  IF response.raises
        THEN Returns(EmailResult(FALSE, None, Some(response.message)),
                     <<params>>)
        ELSE Returns(EmailResult(TRUE, response.id, None), <<params>>)

(* send_email with its try block removed *)
send_email_NoTry(to, html, text, responses) ==
    LET params == [to |-> <<to>>, html |-> Param(html), text |-> Param(text)]
    IN  IF ~TruthyText(html) /\ ~TruthyText(text)
        THEN Returns(EmailResult(FALSE, None,
                         Some("Either HTML or text content is required")),
                     << >>)
        ELSE LET response == responses[1]
             IN  IF response.raises
                 THEN Raises(response.message, <<params>>)
                 ELSE Returns(EmailResult(TRUE, response.id, None), <<params>>)

(* ResendService.send_email: responses[1] is the outcome of the call of    *)
(* resend.Emails.send                                                      *)
send_email(to, html, text, responses) ==
    LET params == [to |-> <<to>>, html |-> Param(html), text |-> Param(text)]
    IN  IF ~TruthyText(html) /\ ~TruthyText(text)
        THEN Returns(EmailResult(FALSE, None,
                         Some("Either HTML or text content is required")),
                     << >>)
        ELSE LET response == responses[1]
             IN  IF response.raises
                 THEN Returns(EmailResult(FALSE, None, Some(response.message)),
                              <<params>>)
                 ELSE Returns(EmailResult(TRUE, response.id, None), <<params>>)

(* send_batch that gives up at the first email whose send failed *)
RECURSIVE send_batch_StopAtFailure(_, _)
send_batch_StopAtFailure(emails, responses) ==
    IF emails = << >> THEN Returns(<< >>, << >>)
    ELSE LET first == send_email(Head(emails).to, Head(emails).html,
                                 Head(emails).text, responses)
             rest  == send_batch_StopAtFailure(Tail(emails),
                                 SubSeq(responses, Len(first.requests) + 1,
                                        Len(responses)))
         IN  IF ~first.value.success THEN Returns(<<first.value>>, first.requests)
             ELSE Returns(<<first.value>> \o rest.value,
                          first.requests \o rest.requests)

(* ResendService.send_batch: one send_email per element, in order; each    *)
(* call is answered by the responses the calls before it left unused       *)
RECURSIVE send_batch(_, _)
send_batch(emails, responses) ==
    IF emails = << >> THEN Returns(<< >>, << >>)
    ELSE LET first == send_email(Head(emails).to, Head(emails).html,
                                 Head(emails).text, responses)
             rest  == send_batch(Tail(emails),
                                 SubSeq(responses, Len(first.requests) + 1,
                                        Len(responses)))
         IN  IF first.raised THEN first
             ELSE IF rest.raised
                  THEN Raises(rest.value, first.requests \o rest.requests)
                  ELSE Returns(<<first.value>> \o rest.value,
                               first.requests \o rest.requests)

(* ResendService.send_magic_link: both bodies are non-empty templates *)
ResendService_send_magic_link(to, responses) ==
    send_email(to, Some("magic_link.html"), Some("magic_link.txt"), responses)

(* ResendService.send_completion_email: both bodies are non-empty templates *)
send_completion_email(to, responses) ==
    send_email(to, Some("completion.html"), Some("completion.txt"), responses)

-----------------------------------------------------------------------------
(* The auth services: shared_services.supabase_auth.magic_link and         *)
(* magic_link_old                                                          *)

(* the name parsing that keeps only the second word as last name *)
ParseName_SecondWord(full_name) ==
    LET name_parts == split_sep(strip(full_name), " ")
    IN  [first_name |-> IF name_parts # << >> THEN name_parts[1] ELSE << >>,
         last_name  |-> IF Len(name_parts) > 1 THEN name_parts[2] ELSE << >>]

(* name_parts = full_name.strip().split(" ") with first_name and last_name *)
(* taken from it                                                           *)
ParseName(full_name) ==
    LET name_parts == split_sep(strip(full_name), " ")
    IN  [first_name |-> IF name_parts # << >> THEN name_parts[1] ELSE << >>,
         last_name  |-> IF Len(name_parts) > 1 THEN join(Tail(name_parts))
                        ELSE << >>]

(* the "data" sent with sign_in_with_otp; full_name is an Optional[str] *)
OtpData(full_name) ==
    LET parsed == IF full_name # None /\ full_name[1] # << >>
                  THEN ParseName(full_name[1])
                  ELSE [first_name |-> << >>, last_name |-> << >>]
    IN  [full_name |-> full_name, first_name |-> parsed.first_name,
         last_name |-> parsed.last_name]

(* MagicLinkService.send_magic_link calling the provider again after an    *)
(* exception                                                               *)
MagicLinkService_send_magic_link_Retry(email, full_name, responses) ==
    LET request  == [email |-> email, call |-> "sign_in_with_otp",
                     data |-> OtpData(full_name)]
        response == responses[1]
        second   == responses[2]
    IN  IF response.raises
        THEN IF second.raises \/ second.error # None
             THEN Returns([success |-> FALSE, error |-> second.message],
                          <<request, request>>)
             ELSE Returns([message |-> "Magic link sent successfully",
                           success |-> TRUE],
                          <<request, request>>)
        ELSE IF response.error # None
        THEN Returns([success |-> FALSE, error |-> response.error[1]], <<request>>)
        ELSE Returns([message |-> "Magic link sent successfully",
                      success |-> TRUE], <<request>>)

(* MagicLinkService.send_magic_link: responses[1] is the outcome of        *)
(* client.auth.sign_in_with_otp                                            *)
MagicLinkService_send_magic_link(email, full_name, responses) ==
    LET request  == [email |-> email, call |-> "sign_in_with_otp",
                     data |-> OtpData(full_name)]
        response == responses[1]
    IN  IF response.raises
        THEN Returns([success |-> FALSE, error |-> response.message], <<request>>)
        ELSE IF response.error # None
        THEN Returns([success |-> FALSE, error |-> response.error[1]], <<request>>)
        ELSE Returns([message |-> "Magic link sent successfully",
                      success |-> TRUE], <<request>>)

(* MagicLinkService.verify_magic_link: responses[1] is the outcome of      *)
(* client.auth.verify_otp                                                  *)
MagicLinkService_verify_magic_link(token, responses) ==
    LET request  == [call |-> "verify_otp", token_hash |-> token]
        response == responses[1]
    IN  IF response.raises
        THEN Returns([success |-> FALSE, error |-> response.message], <<request>>)
        ELSE IF response.error # None
        THEN Returns([success |-> FALSE, error |-> response.error[1]], <<request>>)
        ELSE Returns([success |-> TRUE, user |-> response.user], <<request>>)

(* magic_link_old.send_magic_link *)
send_magic_link(email, full_name, responses) ==
    LET request  == [email |-> email, call |-> "sign_in_with_otp",
                     data |-> OtpData(full_name)]
        response == responses[1]
    IN  IF response.raises
        THEN Returns([success |-> FALSE, error |-> "Failed to send magic link"],
                     <<request>>)
        ELSE IF response.error # None
        THEN Returns([success |-> FALSE, error |-> response.error[1]], <<request>>)
        ELSE Returns([message |-> "Magic link sent successfully",
                      success |-> TRUE], <<request>>)

(* magic_link_old.verify_magic_link *)
verify_magic_link(token, responses) ==
    LET request  == [call |-> "verify_otp", token_hash |-> token]
        response == responses[1]
    IN  IF response.raises
        THEN Returns([success |-> FALSE, error |-> "Failed to verify token"],
                     <<request>>)
        ELSE IF response.error # None
        THEN Returns([success |-> FALSE, error |-> response.error[1]], <<request>>)
        ELSE Returns([success |-> TRUE, user |-> response.user], <<request>>)

-----------------------------------------------------------------------------
(* The profile operations of magic_link_old on the users table.  A         *)
(* database session holds its changes until commit writes them to the      *)
(* table; rollback drops the changes that were not committed.  faults is   *)
(* the set of database steps that raise in this call.                      *)

DbSteps == {"query", "commit", "refresh"}

(* a row of the users table *)
User(email, auth_user_id, first_name, last_name) ==
    [email |-> email, first_name |-> first_name,
     last_name |-> last_name, auth_user_id |-> auth_user_id]

(* db.query(User).filter(User.auth_user_id == user_id).first() *)
QueryFirst(table, user_id) ==
    IF \E row \in table : row.auth_user_id = user_id
    THEN Some(CHOOSE row \in table : row.auth_user_id = user_id)
    ELSE None

(* what a profile operation leaves behind: the value it returned, the      *)
(* users table, and whether it rolled back and closed its session          *)
Outcome(value, table, rolled_back, closed) ==
    [users |-> table, value |-> value, requests |-> << >>,
     raised |-> FALSE, rolled_back |-> rolled_back, closed |-> closed]

(* get_or_create_profile without the lookup of an existing row *)
get_or_create_profile_NoLookup(table, user_id, email, metadata, faults) ==
    LET failure == [success |-> FALSE, error |-> "Failed to manage user profile"]
        new_user == User(email, user_id,
                         IF metadata # None THEN metadata[1].first_name ELSE None,
                         IF metadata # None THEN metadata[1].last_name ELSE None)
    IN  IF "commit" \in faults THEN Outcome(failure, table, TRUE, TRUE)
        ELSE IF "refresh" \in faults
        THEN Outcome(failure, table \cup {new_user}, TRUE, TRUE)
        ELSE Outcome([success |-> TRUE, profile |-> new_user, is_new |-> TRUE],
                     table \cup {new_user}, FALSE, TRUE)

(* magic_link_old.get_or_create_profile; metadata is None or a record of   *)
(* the Optional first_name and last_name                                   *)
get_or_create_profile(table, user_id, email, metadata, faults) ==
    LET failure == [success |-> FALSE, error |-> "Failed to manage user profile"]
        existing_user == QueryFirst(table, user_id)
        new_user == User(email, user_id,
                         IF metadata # None THEN metadata[1].first_name ELSE None,
                         IF metadata # None THEN metadata[1].last_name ELSE None)
    IN  IF "query" \in faults THEN Outcome(failure, table, TRUE, TRUE)
        ELSE IF existing_user # None
        THEN Outcome([success |-> TRUE, profile |-> existing_user[1],
                      is_new |-> FALSE], table, FALSE, TRUE)
        ELSE IF "commit" \in faults THEN Outcome(failure, table, TRUE, TRUE)
        ELSE IF "refresh" \in faults
        THEN Outcome(failure, table \cup {new_user}, TRUE, TRUE)
        ELSE Outcome([success |-> TRUE, profile |-> new_user, is_new |-> TRUE],
                     table \cup {new_user}, FALSE, TRUE)

(* magic_link_old.update_profile; updates is a record of the Optional      *)
(* name and company                                                        *)
update_profile(table, user_id, updates, faults) ==
    LET failure == [success |-> FALSE, error |-> "Failed to update user"]
        user    == QueryFirst(table, user_id)
        parsed  == ParseName(updates.name[1])
        changed == IF updates.name # None
                   THEN [user[1] EXCEPT !.first_name = Some(parsed.first_name),
                                        !.last_name = Some(parsed.last_name)]
                   ELSE user[1]
        written == (table \ {user[1]}) \cup {changed}
    IN  IF "query" \in faults THEN Outcome(failure, table, TRUE, TRUE)
        ELSE IF user = None
        THEN Outcome([success |-> FALSE, error |-> "User not found"],
                     table, FALSE, TRUE)
        ELSE IF "commit" \in faults THEN Outcome(failure, table, TRUE, TRUE)
        ELSE IF "refresh" \in faults THEN Outcome(failure, written, TRUE, TRUE)
        ELSE Outcome([success |-> TRUE, profile |-> changed], written, FALSE, TRUE)

-----------------------------------------------------------------------------
(* The callers of one service instance *)

Threads == {1, 2}

(* the local variables of a caller before its first call; overlapped tells *)
(* whether one of its calls ran while the other caller was inside a call,  *)
(* error holds the exception that ended its last call                      *)
NoFrame ==
    [email |-> << >>, result |-> None, oid |-> 0, error |-> None,
     first_key |-> None, overlapped |-> FALSE]

(* the addresses the concurrent callers ask for *)
ThreadEmails == {<<"b","o","b">>, <<"j","o","@","c","o","r","p",".","i","o">>, Filler(1)}

(* del d[k] *)
DelKey(d, k) == SelectSeq(d, LAMBDA entry : entry.key # k)

(* the size test of _cache_result that never asks for an eviction *)
NeedsEviction_Never(d) == FALSE

(* len(self.cache) > 1000 *)
NeedsEviction(d) == Len(d) > CacheLimit

-----------------------------------------------------------------------------
(* The inputs of the email and auth services *)

(* what resend.Emails.send can do: answer with an id, answer without one,  *)
(* or raise                                                                *)
EmailApiResponses ==
    { [message |-> "", raises |-> FALSE, id |-> Some("msg_1")],
      [message |-> "", raises |-> FALSE, id |-> None],
      [message |-> "API rate limit exceeded", raises |-> TRUE, id |-> None] }

(* what the identity provider can do: answer for a user, answer with an    *)
(* error, or raise                                                         *)
IdpResponses ==
    { [message |-> "", error |-> None, raises |-> FALSE, user |-> Some("u1")],
      [message |-> "", error |-> Some("Token has expired or is invalid"),
       raises |-> FALSE, user |-> None],
      [message |-> "Connection refused", error |-> None, raises |-> TRUE,
       user |-> None] }

(* the answers a provider gives to the first MaxResponses calls *)
Streams(responses) == [1..MaxResponses -> responses]

Bodies == {None, Some(""), Some("<p>Hello</p>")}

(* the parameter dicts given to send_batch *)
BatchEmail ==
    { [to |-> "ann@corp.io", html |-> None, text |-> None],
      [to |-> "bo@corp.io", html |-> Some("<p>Hello</p>"), text |-> None],
      [to |-> "cy@corp.io", html |-> None, text |-> Some("Hello")] }

Batches == UNION {[1..n -> BatchEmail] : n \in 0..MaxBatch}

FullNames == {None, Some(<< >>), Some(<<" ","A","n","n"," "," ","L","e","e"," ","R","o","y"," ">>)}

(* the inputs of the profile operations *)
UserIds == {"u1", "u2"}

Metadata ==
    {None, Some([first_name |-> Some(<<"A","n","n">>), last_name |-> Some(<<"L","e","e">>)])}

Updates ==
    { [name |-> None, company |-> Some("Corp")],
      [name |-> Some(<<" ","A","n","n"," "," ","L","e","e"," ","R","o","y"," ">>), company |-> None],
      [name |-> Some(<<"B","o">>), company |-> None] }

(* the full names given to update_profile and send_magic_link: every text  *)
(* of letters and blanks up to MaxNameLen characters, and three longer     *)
(* names with other whitespace                                             *)
NameChars == {"a", " "}

Names ==
    UNION {[1..n -> NameChars] : n \in 0..MaxNameLen}
    \cup { <<"\t">> \o <<"A","n","n"," ","L","e","e">> \o <<"\n">>,
           <<"a", "\t", "b", " ", "c">>,
           <<" ","A","n","n"," "," ","L","e","e"," ","R","o","y"," ">> }

-----------------------------------------------------------------------------
(* The state machine *)

State == [cache |-> cache, metrics |-> metrics, allocs |-> allocs, ret |-> ret]

(* CompanyDetectionService.__init__ *)
Init ==
    /\ cache = << >>
    /\ metrics = [total_response_time |-> 0, cache_size |-> 0,
                  total_detections |-> 0, cache_hits |-> 0]
    /\ allocs = 0
    /\ ret = [value |-> None, email |-> << >>, oid |-> 0,
              op |-> "init", hit |-> FALSE]
    /\ calls = 0
    /\ hitCalls = 0
    /\ warmed = 0
    /\ users = {}
    /\ out = [op |-> "init"]
    /\ pc = [t \in Threads |-> "idle"]
    /\ frame = [t \in Threads |-> NoFrame]

Install(st) ==
    /\ cache' = st.cache
    /\ metrics' = st.metrics
    /\ allocs' = st.allocs
    /\ ret' = st.ret

(* one call of detect_from_email, with any measured response time *)
Call(email) ==
    /\ \E elapsed \in 0..MaxElapsed :
           Install(detect_from_email(State, email, elapsed))
    /\ calls' = calls + 1
    /\ hitCalls' = hitCalls + (IF email \in Keys(cache) THEN 1 ELSE 0)
    /\ UNCHANGED <<warmed, serviceVars, threadVars>>

Detect(email) ==
    /\ calls < warmed + MaxCalls
    /\ Call(email)

(* one call of clear_cache *)
ClearCache ==
    /\ Install(clear_cache(State))
    /\ UNCHANGED <<calls, hitCalls, warmed, serviceVars, threadVars>>

(* detect_from_email called for Filler(lo), ..., Filler(hi) in this order, *)
(* each call measuring a response time of 0 ms                             *)
RECURSIVE DetectRange(_, _, _)
DetectRange(st, lo, hi) ==
    IF lo > hi THEN st
    ELSE IF lo = hi THEN detect_from_email(st, Filler(lo), 0)
    ELSE LET mid   == (lo + hi) \div 2
             first == DetectRange(st, lo, mid)
         IN  (* the calls lo..mid have returned before call mid + 1 starts *)
             IF first.metrics.total_detections >= 0
             THEN DetectRange(first, mid + 1, hi)
             ELSE first

(* a fresh service is filled by CacheLimit calls with distinct addresses *)
BulkDetect ==
    /\ calls = 0
    /\ cache = << >>
    /\ Install(DetectRange(State, 1, CacheLimit))
    /\ calls' = CacheLimit
    /\ warmed' = CacheLimit
    /\ UNCHANGED <<hitCalls, serviceVars, threadVars>>

Next ==
    \/ \E email \in Emails : Detect(email)
    \/ ClearCache
    \/ BulkDetect

Spec == Init /\ [][Next]_vars

(* The classification rules exercised on a wider set of addresses, a few   *)
(* calls at a time.                                                        *)
DetectClassify(email) ==
    /\ calls < MaxClassifyCalls
    /\ Call(email)

NextClassify ==
    \/ \E email \in ClassifyEmails : DetectClassify(email)
    \/ ClearCache

SpecClassify == Init /\ [][NextClassify]_vars

(* The government, known-corporate and fallback rules exercised on their   *)
(* own set of addresses.                                                   *)
DetectRule(email) ==
    /\ calls < MaxRuleCalls
    /\ Call(email)

NextRules ==
    \/ \E email \in RuleEmails : DetectRule(email)
    \/ ClearCache

SpecRules == Init /\ [][NextRules]_vars

(* The email and auth operations, each called with any parameters and any  *)
(* behaviour of the provider it calls.                                     *)
Record(op, args, responses, done) ==
    /\ out' = [op |-> op, responses |-> responses, args |-> args, done |-> done]
    /\ UNCHANGED <<users, detectorVars, threadVars>>

SendEmail ==
    \E html \in Bodies, text \in Bodies, responses \in Streams(EmailApiResponses) :
        Record("send_email", [html |-> html, text |-> text], responses,
               send_email("ann@corp.io", html, text, responses))

SendBatch ==
    \E emails \in Batches, responses \in Streams(EmailApiResponses) :
        Record("send_batch", emails, responses, send_batch(emails, responses))

SendMagicLinkEmail ==
    \E responses \in Streams(EmailApiResponses) :
        Record("ResendService.send_magic_link", << >>, responses,
               ResendService_send_magic_link("ann@corp.io", responses))

SendCompletionEmail ==
    \E responses \in Streams(EmailApiResponses) :
        Record("send_completion_email", << >>, responses,
               send_completion_email("ann@corp.io", responses))

ServiceSendMagicLink ==
    \E full_name \in FullNames, responses \in Streams(IdpResponses) :
        Record("MagicLinkService.send_magic_link", full_name, responses,
               MagicLinkService_send_magic_link("ann@corp.io", full_name, responses))

ServiceVerifyMagicLink ==
    \E responses \in Streams(IdpResponses) :
        Record("MagicLinkService.verify_magic_link", << >>, responses,
               MagicLinkService_verify_magic_link("token", responses))

SendMagicLink ==
    \E full_name \in FullNames, responses \in Streams(IdpResponses) :
        Record("send_magic_link", full_name, responses,
               send_magic_link("ann@corp.io", full_name, responses))

VerifyMagicLink ==
    \E responses \in Streams(IdpResponses) :
        Record("verify_magic_link", << >>, responses,
               verify_magic_link("token", responses))

NextServices ==
    \/ SendEmail
    \/ SendBatch
    \/ SendMagicLinkEmail
    \/ SendCompletionEmail
    \/ ServiceSendMagicLink
    \/ ServiceVerifyMagicLink
    \/ SendMagicLink
    \/ VerifyMagicLink

SpecServices == Init /\ [][NextServices]_vars

(* The profile operations on the users table, next to magic-link           *)
(* verification, with any database step failing.                           *)
RecordProfile(op, args, faults, done) ==
    /\ out' = [op |-> op, faults |-> faults, args |-> args, done |-> done,
               before |-> users]
    /\ users' = done.users
    /\ UNCHANGED <<detectorVars, threadVars>>

GetOrCreateProfile ==
    \E user_id \in UserIds, metadata \in Metadata, faults \in SUBSET DbSteps :
        RecordProfile("get_or_create_profile",
                      [metadata |-> metadata, user_id |-> user_id], faults,
                      get_or_create_profile(users, user_id, "ann@corp.io",
                                            metadata, faults))

UpdateProfile ==
    \E user_id \in UserIds, updates \in Updates, faults \in SUBSET DbSteps :
        RecordProfile("update_profile",
                      [user_id |-> user_id, updates |-> updates], faults,
                      update_profile(users, user_id, updates, faults))

NextProfiles ==
    \/ GetOrCreateProfile
    \/ UpdateProfile
    \/ VerifyMagicLink
    \/ ServiceVerifyMagicLink

SpecProfiles == Init /\ [][NextProfiles]_vars

(* The name parsing of update_profile and send_magic_link applied to every *)
(* name of Names.                                                          *)
CreateProfile ==
    RecordProfile("get_or_create_profile",
                  [metadata |-> None, user_id |-> "u1"], {},
                  get_or_create_profile(users, "u1", "ann@corp.io", None, {}))

UpdateName ==
    \E name \in Names :
        RecordProfile("update_profile",
                      [user_id |-> "u1",
                       updates |-> [name |-> Some(name), company |-> None]], {},
                      update_profile(users, "u1",
                                     [name |-> Some(name), company |-> None], {}))

SendNamed ==
    \E name \in Names, responses \in Streams(IdpResponses) :
        /\ \A i \in 1..MaxResponses :
               ~responses[i].raises /\ responses[i].error = None
        /\ Record("MagicLinkService.send_magic_link", Some(name), responses,
                  MagicLinkService_send_magic_link("ann@corp.io", Some(name),
                                                   responses))

NextNames ==
    \/ CreateProfile
    \/ UpdateName
    \/ SendNamed

SpecNames == Init /\ [][NextNames]_vars

(* Two callers running detect_from_email on one service instance with no   *)
(* lock: each step is one statement of detect_from_email or _cache_result, *)
(* and the steps of the two callers interleave in any order.               *)
Other(t) == CHOOSE u \in Threads : u # t

Goto(t, label) == pc' = [pc EXCEPT ![t] = label]

(* a fresh service is filled by CacheLimit + 1 calls with distinct         *)
(* addresses                                                               *)
FillPastLimit ==
    /\ calls = 0
    /\ cache = << >>
    /\ Install(DetectRange(State, 1, CacheLimit + 1))
    /\ calls' = CacheLimit + 1
    /\ warmed' = CacheLimit + 1
    /\ UNCHANGED <<hitCalls, serviceVars, threadVars>>

(* detect_from_email is entered: start_time = datetime.now() *)
Enter(t, email) ==
    /\ pc[t] = "idle"
    /\ calls < warmed + MaxThreadCalls
    /\ Goto(t, "test")
    /\ frame' = [u \in Threads |->
                    IF u = t
                    THEN [NoFrame EXCEPT !.email = email,
                                         !.overlapped = frame[t].overlapped
                                                        \/ pc[Other(t)] # "idle"]
                    ELSE [frame[u] EXCEPT !.overlapped = @ \/ pc[u] # "idle"]]
    /\ calls' = calls + 1
    /\ UNCHANGED <<cache, metrics, allocs, ret, hitCalls, warmed, serviceVars>>

(* if email in self.cache: *)
Test(t) ==
    /\ pc[t] = "test"
    /\ Goto(t, IF frame[t].email \in Keys(cache) THEN "hit_count" ELSE "classify")
    /\ UNCHANGED <<detectorVars, serviceVars, frame>>

(* self.metrics["cache_hits"] += 1 *)
HitCount(t) ==
    /\ pc[t] = "hit_count"
    /\ metrics' = [metrics EXCEPT !.cache_hits = @ + 1]
    /\ hitCalls' = hitCalls + 1
    /\ Goto(t, "hit_total")
    /\ UNCHANGED <<cache, allocs, ret, calls, warmed, serviceVars, frame>>

(* self.metrics["total_detections"] += 1 *)
HitTotal(t) ==
    /\ pc[t] = "hit_total"
    /\ metrics' = [metrics EXCEPT !.total_detections = @ + 1]
    /\ Goto(t, "hit_return")
    /\ UNCHANGED <<cache, allocs, ret, calls, hitCalls, warmed, serviceVars, frame>>

(* return self.cache[email] *)
HitReturn(t) ==
    /\ pc[t] = "hit_return"
    /\ IF frame[t].email \in Keys(cache)
       THEN LET entry == cache[IndexOf(cache, frame[t].email)]
            IN  /\ ret' = [value |-> Some(entry.value), email |-> frame[t].email,
                           oid |-> entry.oid, op |-> "detect",
                           hit |-> TRUE]
                /\ Goto(t, "idle")
                /\ UNCHANGED frame
       ELSE /\ frame' = [frame EXCEPT ![t].error = Some("KeyError")]
            /\ Goto(t, "raised")
            /\ UNCHANGED ret
    /\ UNCHANGED <<cache, metrics, allocs, calls, hitCalls, warmed, serviceVars>>

(* the rules build the result object *)
BuildResult(t) ==
    /\ pc[t] = "classify"
    /\ frame' = [frame EXCEPT ![t].result = Some(Classify(frame[t].email)),
                              ![t].oid = allocs + 1]
    /\ allocs' = allocs + 1
    /\ Goto(t, "count")
    /\ UNCHANGED <<cache, metrics, ret, calls, hitCalls, warmed, serviceVars>>

(* self.metrics["total_detections"] += 1 and                               *)
(* self.metrics["total_response_time"] += response_time, measured as 0     *)
Count(t) ==
    /\ pc[t] = "count"
    /\ metrics' = [metrics EXCEPT !.total_detections = @ + 1]
    /\ Goto(t, "size")
    /\ UNCHANGED <<cache, allocs, ret, calls, hitCalls, warmed, serviceVars, frame>>

(* self.metrics["cache_size"] = len(self.cache) *)
Size(t) ==
    /\ pc[t] = "size"
    /\ metrics' = [metrics EXCEPT !.cache_size = Len(cache)]
    /\ Goto(t, "check")
    /\ UNCHANGED <<cache, allocs, ret, calls, hitCalls, warmed, serviceVars, frame>>

(* if len(self.cache) > 1000: *)
Check(t) ==
    /\ pc[t] = "check"
    /\ Goto(t, IF NeedsEviction(cache) THEN "first_key" ELSE "store")
    /\ UNCHANGED <<detectorVars, serviceVars, frame>>

(* first_key = next(iter(self.cache)) *)
FirstKey(t) ==
    /\ pc[t] = "first_key"
    /\ IF cache # << >>
       THEN /\ frame' = [frame EXCEPT ![t].first_key = Some(cache[1].key)]
            /\ Goto(t, "del")
       ELSE /\ frame' = [frame EXCEPT ![t].error = Some("StopIteration")]
            /\ Goto(t, "raised")
    /\ UNCHANGED <<detectorVars, serviceVars>>

(* del self.cache[first_key] *)
Del(t) ==
    /\ pc[t] = "del"
    /\ IF frame[t].first_key[1] \in Keys(cache)
       THEN /\ cache' = DelKey(cache, frame[t].first_key[1])
            /\ Goto(t, "store")
            /\ UNCHANGED frame
       ELSE /\ frame' = [frame EXCEPT ![t].error = Some("KeyError")]
            /\ Goto(t, "raised")
            /\ UNCHANGED cache
    /\ UNCHANGED <<metrics, allocs, ret, calls, hitCalls, warmed, serviceVars>>

(* self.cache[email] = result; return result *)
Store(t) ==
    /\ pc[t] = "store"
    /\ cache' = DictSet(cache, frame[t].email,
                        [key |-> frame[t].email, value |-> frame[t].result[1],
                         oid |-> frame[t].oid])
    /\ ret' = [value |-> frame[t].result, email |-> frame[t].email, oid |-> frame[t].oid,
               op |-> "detect", hit |-> FALSE]
    /\ Goto(t, "idle")
    /\ UNCHANGED <<metrics, allocs, calls, hitCalls, warmed, serviceVars, frame>>

(* the exception leaves detect_from_email *)
Unwind(t) ==
    /\ pc[t] = "raised"
    /\ Goto(t, "idle")
    /\ UNCHANGED <<detectorVars, serviceVars, frame>>

NextThreads ==
    \/ BulkDetect
    \/ FillPastLimit
    \/ \E t \in Threads :
          \/ \E email \in ThreadEmails : Enter(t, email)
          \/ Test(t)
          \/ HitCount(t)
          \/ HitTotal(t)
          \/ HitReturn(t)
          \/ BuildResult(t)
          \/ Count(t)
          \/ Size(t)
          \/ Check(t)
          \/ FirstKey(t)
          \/ Del(t)
          \/ Store(t)
          \/ Unwind(t)

SpecThreads == Init /\ [][NextThreads]_vars

-----------------------------------------------------------------------------
(* Properties of the cache and the metrics *)

(* a step that is one completed detect_from_email call *)
SingleCall == calls' = calls + 1

(* C1: in every reachable state the cache holds at most 1000 entries.      *)
C1_CacheWithinLimit == Len(cache) <= CacheLimit

(* C2: a miss while the cache holds 1000 entries evicts exactly the        *)
(* earliest-inserted entry and leaves the size at 1000, the new entry      *)
(* going last; a hit leaves the cache, and so the eviction order, as it is.*)
C2_InsertAtLimitEvictsOldest ==
    [][ /\ (SingleCall /\ ~ret'.hit /\ Len(cache) = CacheLimit)
            => /\ Len(cache') = CacheLimit
               /\ SubSeq(cache', 1, CacheLimit - 1) = Tail(cache)
               /\ cache'[CacheLimit].key = ret'.email
        /\ (SingleCall /\ ret'.hit) => cache' = cache
      ]_vars

(* C3: a call is a hit exactly when its raw email is a key of the cache;   *)
(* a hit returns the stored object unchanged and adds exactly 1 to         *)
(* cache_hits; a miss leaves cache_hits alone and stores the new object    *)
(* under the email, so that the next call with it is the first hit.        *)
C3_HitIffCached ==
    [][ SingleCall =>
          LET email == ret'.email
          IN  /\ ret'.hit <=> email \in Keys(cache)
              /\ ret'.hit =>
                   LET entry == cache[IndexOf(cache, email)]
                   IN  /\ ret'.value = Some(entry.value)
                       /\ ret'.oid = entry.oid
                       /\ cache' = cache
                       /\ metrics'.cache_hits = metrics.cache_hits + 1
              /\ ~ret'.hit =>
                   /\ metrics'.cache_hits = metrics.cache_hits
                   /\ \A i \in 1..Len(cache) : cache[i].oid # ret'.oid
                   /\ email \in Keys(cache')
                   /\ cache'[IndexOf(cache', email)].oid = ret'.oid
                   /\ Some(cache'[IndexOf(cache', email)].value) = ret'.value
      ]_vars

(* C3 witness: the second of two calls with the same email was the only hit *)
C3_Witness ==
    /\ ret.op = "detect"
    /\ ret.hit
    /\ calls = 2
    /\ Len(cache) = 1
    /\ cache[1].key = ret.email
    /\ cache[1].oid = ret.oid
    /\ metrics.cache_hits = 1

(* C4: clear_cache leaves the cache empty and cache_size at 0 and leaves   *)
(* total_detections, cache_hits and total_response_time as they were; the  *)
(* call made right after it is a miss.                                     *)
C4_ClearCacheFrame ==
    [][ /\ ret'.op = "clear" =>
              /\ cache' = << >>
              /\ metrics'.cache_size = 0
              /\ metrics'.total_detections = metrics.total_detections
              /\ metrics'.cache_hits = metrics.cache_hits
              /\ metrics'.total_response_time = metrics.total_response_time
        /\ (ret.op = "clear" /\ SingleCall) => ~ret'.hit
      ]_vars

(* C4 witness: clear_cache has run on a service that had counted calls and *)
(* hits and measured time                                                  *)
C4_Witness ==
    /\ ret.op = "clear"
    /\ cache = << >>
    /\ metrics.cache_size = 0
    /\ metrics.total_detections >= 2
    /\ metrics.cache_hits >= 1
    /\ metrics.total_response_time >= 1

(* C5: total_detections is the number of completed calls, cache_hits the   *)
(* number of them that found their email in the cache, and cache_hits      *)
(* never exceeds total_detections.                                         *)
C5_CountersMatchCalls ==
    /\ metrics.total_detections = calls
    /\ metrics.cache_hits = hitCalls
    /\ metrics.cache_hits <= metrics.total_detections

(* C5 witness: hits and misses have both been counted *)
C5_Witness ==
    /\ calls >= 3
    /\ hitCalls >= 1
    /\ hitCalls < calls
    /\ metrics.total_detections = calls

-----------------------------------------------------------------------------
(* Properties of the classification rules *)

(* the result object the last call returned *)
Returned == ret.value[1]

(* the email has no '@' that is followed by a domain character *)
HasNoDomain(email) ==
    \A i \in 1..Len(email) :
        email[i] = "@" => (i = Len(email) \/ ~IsDomainChar(email[i + 1]))

(* the lower-cased domain of an email that has one: the domain characters  *)
(* that follow its first '@' followed by one                               *)
LoweredDomainOf(email) ==
    LET i == Min({k \in 1..(Len(email) - 1) :
                     email[k] = "@" /\ IsDomainChar(email[k + 1])})
        j == Min({k \in (i + 1)..(Len(email) + 1) :
                     k = Len(email) + 1 \/ ~IsDomainChar(email[k])})
    IN  lower(SubSeq(email, i + 1, j - 1))

(* C6: for an email with no '@' followed by a domain character the call    *)
(* returns company None, type unknown, confidence 0, website None, and     *)
(* that result is in the cache under the email.                            *)
C6_NoDomainIsUnknown ==
    (ret.op = "detect" /\ HasNoDomain(ret.email)) =>
        /\ ret.value # None
        /\ Returned.company = None
        /\ Returned.type = "unknown"
        /\ Returned.confidence = 0
        /\ Returned.website = None
        /\ ret.email \in Keys(cache)
        /\ cache[IndexOf(cache, ret.email)].value = Returned

(* C6 witness: a miss for an email that has an '@' but no domain after it *)
C6_Witness ==
    /\ ret.op = "detect"
    /\ ~ret.hit
    /\ "@" \in Range(ret.email)
    /\ HasNoDomain(ret.email)
    /\ ret.email \in Keys(cache)

(* C7: every call returns a result whose type is one of the five types and *)
(* whose confidence lies in [0, 1] (0..10 tenths), whatever the email and  *)
(* the state of the cache; so does every result the cache holds.           *)
ResultTypes == {"corporate", "personal", "educational", "government", "unknown"}

C7_AlwaysAResult ==
    /\ ret.op = "detect" =>
          /\ ret.value # None
          /\ Returned.type \in ResultTypes
          /\ Returned.confidence \in 0..10
    /\ \A i \in 1..Len(cache) :
          /\ cache[i].value.type \in ResultTypes
          /\ cache[i].value.confidence \in 0..10

(* C7 witness: a call that had to evict the oldest entry of a full cache   *)
(* returned a fallback result                                              *)
C7_Witness ==
    /\ ret.op = "detect"
    /\ ~ret.hit
    /\ Len(cache) > CacheLimit
    /\ cache[1].key # Filler(1)
    /\ Returned.type = "corporate"
    /\ Returned.confidence = 6

(* C8: the rules are tried in the order personal, educational, government, *)
(* known corporate, fallback, and the result is the one built by the first *)
(* rule whose condition holds; a domain that is educational and            *)
(* government at once is educational.                                      *)
RuleHolds(k, domain) ==
    CASE k = 1 -> IsPersonal(domain)
      [] k = 2 -> IsEducational(domain)
      [] k = 3 -> IsGovernment(domain)
      [] k = 4 -> IsKnownCorporate(domain)
      [] k = 5 -> TRUE

RuleResult(k, domain) ==
    CASE k = 1 -> PersonalResult(domain)
      [] k = 2 -> EducationalResult(domain)
      [] k = 3 -> GovernmentResult(domain)
      [] k = 4 -> KnownCorporateResult(domain)
      [] k = 5 -> FallbackResult(domain)

C8_FirstMatchingRuleWins ==
    (ret.op = "detect" /\ ~HasNoDomain(ret.email)) =>
        LET domain == LoweredDomainOf(ret.email)
            first  == Min({k \in 1..5 : RuleHolds(k, domain)})
        IN  /\ Returned = RuleResult(first, domain)
            /\ (contains(domain, <<".","a","c",".">>) /\ endswith(domain, <<".","g","o","v">>))
                   => Returned.type = "educational"

(* C8 witness: a domain that contains '.ac.' and ends in '.gov' was        *)
(* classified                                                              *)
C8_Witness ==
    /\ ret.op = "detect"
    /\ ~HasNoDomain(ret.email)
    /\ contains(LoweredDomainOf(ret.email), <<".","a","c",".">>)
    /\ endswith(LoweredDomainOf(ret.email), <<".","g","o","v">>)
    /\ Returned.type = "educational"

(* C9: for a domain that is, lower-cased, a personal provider the result   *)
(* is type personal, confidence 1.0, website None, company the friendly    *)
(* name when the provider has one (Gmail for gmail.com) and else the       *)
(* lower-cased domain; two emails whose domains differ only in letter case *)
(* get equal results.                                                      *)
C9_PersonalProvider ==
    (ret.op = "detect" /\ ~HasNoDomain(ret.email)
       /\ LoweredDomainOf(ret.email) \in personal_providers) =>
        LET domain == LoweredDomainOf(ret.email)
        IN  /\ Returned.type = "personal"
            /\ Returned.confidence = 10
            /\ Returned.website = None
            /\ Returned.company # None
            /\ \A row \in providers :
                   row.key = domain => Returned.company = Some(row.value)
            /\ (\A row \in providers : row.key # domain)
                   => Returned.company = Some(domain)
            /\ domain = <<"g","m","a","i","l",".","c","o","m">> => Returned.company = Some(<<"G","m","a","i","l">>)
            /\ \A i \in 1..Len(cache) :
                   (/\ ~HasNoDomain(cache[i].key)
                    /\ LoweredDomainOf(cache[i].key) = domain)
                       => cache[i].value = Returned

(* C9 witness: a provider domain written with capitals was classified, and *)
(* the cache holds the same domain in lower case                           *)
C9_Witness ==
    /\ ret.op = "detect"
    /\ ~ret.hit
    /\ ~HasNoDomain(ret.email)
    /\ LoweredDomainOf(ret.email) = <<"g","m","a","i","l",".","c","o","m">>
    /\ contains(ret.email, <<"@","G","m","a","i","l",".","C","O","M">>)
    /\ Returned.company = Some(<<"G","m","a","i","l">>)
    /\ \E i \in 1..Len(cache) : contains(cache[i].key, <<"@","g","m","a","i","l",".","c","o","m">>)

(* the part of an educational domain in front of its trailing '.edu',      *)
(* '.ac.uk' or '.ac.<rest>': the shortest front part that leaves such an   *)
(* ending, the whole domain when it has none                               *)
BeforeEduSuffix(domain) ==
    LET cuts == {n \in 0..(Len(domain) - 1) :
                    LET rest == SubSeq(domain, n + 1, Len(domain))
                    IN  \/ rest = <<".","e","d","u">>
                        \/ rest = <<".","a","c",".","u","k">>
                        \/ (Len(rest) > 4 /\ SubSeq(rest, 1, 4) = <<".","a","c",".">>)}
    IN  IF cuts = {} THEN domain ELSE SubSeq(domain, 1, Min(cuts))

(* its dot-separated parts, each with a capital first letter, joined by    *)
(* single blanks                                                           *)
RECURSIVE CapitalizedName(_)
CapitalizedName(s) ==
    LET dots == {i \in 1..Len(s) : s[i] = "."}
    IN  IF dots = {}
        THEN (IF s = << >> THEN << >> ELSE <<UpperChar(s[1])>> \o Tail(s))
        ELSE LET word == SubSeq(s, 1, Min(dots) - 1)
                 rest == CapitalizedName(SubSeq(s, Min(dots) + 1, Len(s)))
             IN  IF word = << >> THEN rest
                 ELSE IF rest = << >> THEN <<UpperChar(word[1])>> \o Tail(word)
                 ELSE <<UpperChar(word[1])>> \o Tail(word) \o <<" ">> \o rest

-----------------------------------------------------------------------------
(* Properties of the government, known-corporate and fallback rules *)

(* the keywords of the government rule in the order they are tried, with   *)
(* the organisation each one names                                         *)
GovernmentKeywords ==
    << [name |-> <<"N","A","S","A">>, keyword |-> <<"n","a","s","a">>],
       [name |-> <<"U","S"," ","S","t","a","t","e"," ","D","e","p","a","r","t","m","e","n","t">>, keyword |-> <<"s","t","a","t","e">>],
       [name |-> <<"U","S"," ","A","r","m","y">>, keyword |-> <<"a","r","m","y">>],
       [name |-> <<"U","S"," ","N","a","v","y">>, keyword |-> <<"n","a","v","y">>],
       [name |-> <<"U","S"," ","A","i","r"," ","F","o","r","c","e">>, keyword |-> <<"a","i","r","f","o","r","c","e">>] >>

(* the domain without a trailing '.gov' or '.mil' *)
BeforeGovSuffix(domain) ==
    IF endswith(domain, <<".","g","o","v">>) \/ endswith(domain, <<".","m","i","l">>)
    THEN SubSeq(domain, 1, Len(domain) - 4)
    ELSE domain

(* the last call classified a domain that the government rule decides *)
GovernmentCase ==
    /\ ret.op = "detect"
    /\ ~HasNoDomain(ret.email)
    /\ LET d == LoweredDomainOf(ret.email)
       IN  /\ d \notin personal_providers
           /\ ~(\/ endswith(d, <<".","e","d","u">>) \/ contains(d, <<".","e","d","u",".">>)
                \/ endswith(d, <<".","a","c",".","u","k">>) \/ contains(d, <<".","a","c",".">>))
           /\ (\/ endswith(d, <<".","g","o","v">>) \/ endswith(d, <<".","m","i","l">>)
               \/ contains(d, <<".","g","o","v",".">>))

(* the government result with the given company name for a domain that     *)
(* holds no keyword                                                        *)
GovernmentResultIs(remainderName) ==
    LET domain == LoweredDomainOf(ret.email)
        found  == {k \in 1..Len(GovernmentKeywords) :
                      contains(domain, GovernmentKeywords[k].keyword)}
    IN  /\ Returned.type = "government"
        /\ Returned.confidence = 9
        /\ Returned.industry = Some("Government")
        /\ Returned.website = Some(domain)
        /\ Returned.company =
              Some(IF found # {} THEN GovernmentKeywords[Min(found)].name
                   ELSE remainderName)

(* C11 as stated: the company of a government domain with no keyword is    *)
(* the upper-cased domain remainder after removing a trailing '.gov' or    *)
(* '.mil'.                                                                 *)
C11_GovernmentAsStated ==
    GovernmentCase =>
        GovernmentResultIs(upper(BeforeGovSuffix(LoweredDomainOf(ret.email))))

(* C11 amended: for a domain not matched by the personal or educational    *)
(* rule that ends with '.gov' or '.mil' or contains '.gov.', the result is *)
(* type government, confidence 0.9, industry Government, website the       *)
(* domain, and company the name for the first keyword found in the order   *)
(* nasa, state, army, navy, airforce, otherwise the upper-cased domain     *)
(* remainder after removing a trailing '.gov' or '.mil' with every '.' of  *)
(* it replaced by a blank.                                                 *)
C11_Government ==
    GovernmentCase =>
        GovernmentResultIs(
            upper(replace(BeforeGovSuffix(LoweredDomainOf(ret.email)), ".", " ")))

(* C11 witness: a government domain with no keyword and a dot in its       *)
(* remainder was classified, and so was one holding two keywords           *)
C11_Witness ==
    /\ GovernmentCase
    /\ ~ret.hit
    /\ LoweredDomainOf(ret.email) = <<"s","u","b",".","c","d","c",".","g","o","v">>
    /\ Returned.company = Some(<<"S","U","B"," ","C","D","C">>)
    /\ \E i \in 1..Len(cache) :
          /\ cache[i].key = <<"j","@","s","t","a","t","e",".","n","a","s","a",".","g","o","v">>
          /\ cache[i].value.company = Some(<<"N","A","S","A">>)


(* the last call classified a domain that no rule before the               *)
(* known-corporate rule decides                                            *)
PastGovernmentCase ==
    /\ ret.op = "detect"
    /\ ~HasNoDomain(ret.email)
    /\ LET d == LoweredDomainOf(ret.email)
       IN  /\ d \notin personal_providers
           /\ ~(\/ endswith(d, <<".","e","d","u">>) \/ contains(d, <<".","e","d","u",".">>)
                \/ endswith(d, <<".","a","c",".","u","k">>) \/ contains(d, <<".","a","c",".">>))
           /\ ~(\/ endswith(d, <<".","g","o","v">>) \/ endswith(d, <<".","m","i","l">>)
                \/ contains(d, <<".","g","o","v",".">>))

(* C12: an email whose lower-cased domain is exactly a key of the          *)
(* known-corporate table and matched no earlier rule gets type corporate,  *)
(* confidence 0.8, company and industry of the table entry and the domain  *)
(* as website (microsoft.com gives Microsoft, Technology); a domain that   *)
(* is not a key, such as the subdomain mail.microsoft.com, does not get    *)
(* the confidence of this rule.                                            *)
C12_KnownCorporate ==
    PastGovernmentCase =>
        LET d == LoweredDomainOf(ret.email)
        IN  /\ (\E row \in corporate_info : row.key = d) =>
                  /\ Returned.type = "corporate"
                  /\ Returned.confidence = 8
                  /\ Returned.website = Some(d)
                  /\ \E row \in corporate_info :
                        /\ row.key = d
                        /\ Returned.company = Some(row.value.name)
                        /\ Returned.industry = Some(row.value.industry)
            /\ d = <<"m","i","c","r","o","s","o","f","t",".","c","o","m">> =>
                  /\ Returned.company = Some(<<"M","i","c","r","o","s","o","f","t">>)
                  /\ Returned.industry = Some("Technology")
            /\ ~(\E row \in corporate_info : row.key = d) =>
                  Returned.confidence # 8
            /\ d = <<"m","a","i","l",".","m","i","c","r","o","s","o","f","t",".","c","o","m">> => Returned.confidence = 6

(* C12 witness: an upper-case spelling of a table key was classified by    *)
(* the rule after its subdomain was classified by the fallback             *)
C12_Witness ==
    /\ PastGovernmentCase
    /\ ~ret.hit
    /\ ret.email = <<"p","@","M","I","C","R","O","S","O","F","T",".","c","o","m">>
    /\ Returned.company = Some(<<"M","i","c","r","o","s","o","f","t">>)
    /\ Returned.confidence = 8
    /\ \E i \in 1..Len(cache) :
          /\ cache[i].key = <<"p","@","m","a","i","l",".","m","i","c","r","o","s","o","f","t",".","c","o","m">>
          /\ cache[i].value.confidence = 6


(* the last call classified a domain that only the fallback rule decides *)
FallbackCase ==
    /\ PastGovernmentCase
    /\ ~(\E row \in corporate_info : row.key = LoweredDomainOf(ret.email))

(* s without the first of the given prefixes it starts with *)
WithoutPrefix(s, prefixes) ==
    LET found == {k \in 1..Len(prefixes) : startswith(s, prefixes[k])}
    IN  IF found = {} THEN s
        ELSE SubSeq(s, Len(prefixes[Min(found)]) + 1, Len(s))

(* s without the one of the given suffixes it ends with *)
WithoutSuffix(s, suffixes) ==
    IF \E suf \in suffixes : endswith(s, suf)
    THEN LET suf == CHOOSE x \in suffixes : endswith(s, x)
         IN  SubSeq(s, 1, Len(s) - Len(suf))
    ELSE s

(* the domain with a leading www./mail./email. and a trailing known suffix *)
(* removed                                                                 *)
BareDomain(domain) ==
    WithoutSuffix(
        WithoutSuffix(
            WithoutPrefix(domain, << <<"w","w","w",".">>, <<"m","a","i","l",".">>, <<"e","m","a","i","l",".">> >>),
            { <<".","c","o","m">>, <<".","o","r","g">>, <<".","n","e","t">>, <<".","c","o">>, <<".","i","o">>, <<".","a","i">>,
              <<".","t","e","c","h">>, <<".","i","n","c">> }),
        { <<".","c","o",".","u","k">>, <<".","c","o","m",".","a","u">>, <<".","c","o",".","i","n">> })

(* C13: in the fallback rule the result has type corporate and one of two  *)
(* shapes: the bare domain has at least 2 characters and is the company    *)
(* with its first letter upper-cased, confidence 0.6, website the domain;  *)
(* or company None, confidence 0.2, website None.  For                     *)
(* jane@myunknownstartup.io: Myunknownstartup, 0.6, myunknownstartup.io.   *)
C13_Fallback ==
    FallbackCase =>
        LET d    == LoweredDomainOf(ret.email)
            bare == BareDomain(d)
        IN  /\ Returned.type = "corporate"
            /\ \/ /\ Len(bare) >= 2
                  /\ Returned.company = Some(<<UpperChar(bare[1])>> \o Tail(bare))
                  /\ Returned.confidence = 6
                  /\ Returned.website = Some(d)
               \/ /\ Len(bare) < 2
                  /\ Returned.company = None
                  /\ Returned.confidence = 2
                  /\ Returned.website = None
            /\ ret.email = <<"j","a","n","e","@","m","y","u","n","k","n","o","w","n","s","t","a","r","t","u","p",".","i","o">> =>
                  /\ Returned.company = Some(<<"M","y","u","n","k","n","o","w","n","s","t","a","r","t","u","p">>)
                  /\ Returned.confidence = 6
                  /\ Returned.website = Some(<<"m","y","u","n","k","n","o","w","n","s","t","a","r","t","u","p",".","i","o">>)

(* C13 witness: the fallback gave no company for a one-letter name after   *)
(* it gave a company for a domain with a prefix and a country suffix       *)
C13_Witness ==
    /\ FallbackCase
    /\ ~ret.hit
    /\ ret.email = <<"j","@","x",".","i","o">>
    /\ Returned.company = None
    /\ Returned.confidence = 2
    /\ \E i \in 1..Len(cache) :
          /\ cache[i].key = <<"j","@","m","a","i","l",".","a","c","m","e",".","c","o",".","u","k">>
          /\ cache[i].value.company = Some(<<"A","c","m","e">>)
          /\ cache[i].value.confidence = 6


(* the keyword groups of the fallback rule in the order they are tried *)
IndustryGroups ==
    << [industry |-> "Financial Services", keywords |-> { <<"b","a","n","k">>, <<"f","i","n","a","n","c","e">> }],
       [industry |-> "Technology", keywords |-> { <<"t","e","c","h">>, <<"a","i">>, <<"s","o","f","t","w","a","r","e">> }],
       [industry |-> "Healthcare", keywords |-> { <<"h","e","a","l","t","h">>, <<"m","e","d","i","c","a","l">>, <<"p","h","a","r","m","a">> }],
       [industry |-> "Consulting", keywords |-> { <<"c","o","n","s","u","l","t","i","n","g">> }],
       [industry |-> "Legal Services", keywords |-> { <<"l","a","w">>, <<"l","e","g","a","l">> }] >>

(* C20: in the fallback rule the industry is that of the earliest group,   *)
(* in the order bank/finance, tech/ai/software, health/medical/pharma,     *)
(* consulting, law/legal, one of whose keywords occurs anywhere in the     *)
(* lower-cased domain, and is none when no keyword occurs.                 *)
C20_FallbackIndustry ==
    FallbackCase =>
        LET d     == LoweredDomainOf(ret.email)
            found == {g \in 1..Len(IndustryGroups) :
                         \E kw \in IndustryGroups[g].keywords : contains(d, kw)}
        IN  Returned.industry =
                IF found = {} THEN None
                ELSE Some(IndustryGroups[Min(found)].industry)

(* C20 witness: a domain with keywords of two groups got the industry of   *)
(* the earlier group after a domain with no keyword got none               *)
C20_Witness ==
    /\ FallbackCase
    /\ ~ret.hit
    /\ ret.email = <<"j","@","t","e","c","h","b","a","n","k",".","c","o",".","u","k">>
    /\ Returned.industry = Some("Financial Services")
    /\ \E i \in 1..Len(cache) :
          /\ cache[i].key = <<"j","@","x",".","i","o">>
          /\ cache[i].value.industry = None

-----------------------------------------------------------------------------
(* Properties of the email and auth services *)

(* the operations that send one request to a provider *)
ProviderOps ==
    {"send_email", "ResendService.send_magic_link", "send_completion_email",
     "MagicLinkService.send_magic_link", "MagicLinkService.verify_magic_link",
     "send_magic_link", "verify_magic_link"}

(* the provider raised or answered with an error *)
Failed(response) ==
    \/ response.raises
    \/ "error" \in DOMAIN response /\ response.error # None

(* the value is a failure result that carries an error message: an        *)
(* EmailResult whose error is set, or a dict with an "error" entry         *)
IsFailureResult(value) ==
    /\ value.success = FALSE
    /\ "error" \in DOMAIN value
    /\ "message_id" \in DOMAIN value => value.error # None

(* C14: no exception leaves send_email, send_magic_link or                 *)
(* verify_magic_link, and whenever the provider raises or reports an error *)
(* to the call the operation made, the operation returns a result with     *)
(* success false and an error message.                                     *)
C14_FailuresBecomeResults ==
    /\ out.op \in ProviderOps \cup {"send_batch"} => ~out.done.raised
    /\ (/\ out.op \in ProviderOps
        /\ out.done.requests # << >>
        /\ Failed(out.responses[1]))
       => IsFailureResult(out.done.value)

(* C14 witness: the email API raised during send_email and the call        *)
(* returned the failure result with the message of the exception           *)
C14_Witness ==
    /\ out.op = "send_email"
    /\ out.responses[1].raises
    /\ out.done.requests # << >>
    /\ ~out.done.raised
    /\ out.done.value = EmailResult(FALSE, None, Some("API rate limit exceeded"))

(* C15: each send_email, send_magic_link, send_completion_email and auth   *)
(* send or verify invocation sends at most one request to its provider,    *)
(* send_batch at most one per email, and when the request fails the        *)
(* failure result is returned without a further request.                   *)
C15_NoRetry ==
    /\ out.op \in ProviderOps => Len(out.done.requests) <= 1
    /\ out.op = "send_batch" => Len(out.done.requests) <= Len(out.args)
    /\ (/\ out.op \in ProviderOps
        /\ Len(out.done.requests) >= 1
        /\ Failed(out.responses[1]))
       => /\ Len(out.done.requests) = 1
          /\ ~out.done.raised
          /\ out.done.value.success = FALSE

(* C15 witness: the identity provider raised on the first request of       *)
(* MagicLinkService.send_magic_link and would have answered a second one,  *)
(* and the call returned the failure after one request                     *)
C15_Witness ==
    /\ out.op = "MagicLinkService.send_magic_link"
    /\ out.responses[1].raises
    /\ ~Failed(out.responses[2])
    /\ Len(out.done.requests) = 1
    /\ out.done.value = [success |-> FALSE, error |-> "Connection refused"]

-----------------------------------------------------------------------------
(* Properties of magic-link verification and the profile operations *)

(* C16 as stated: after verify_magic_link returns success for a user, a    *)
(* row of the users table with that user's identifier exists.              *)
C16_ProfileAfterVerify ==
    (/\ out.op \in {"verify_magic_link", "MagicLinkService.verify_magic_link"}
     /\ out.done.value.success)
    => \E row \in users : Some(row.auth_user_id) = out.done.value.user

(* C17 as stated: when a database step fails inside get_or_create_profile  *)
(* or update_profile, the transaction is rolled back so that no row of the *)
(* users table is created or changed, the operation returns success false  *)
(* with its generic message, and the session is closed on every path.      *)
C17_RollbackOnFailure ==
    out.op \in {"get_or_create_profile", "update_profile"} =>
        /\ out.done.closed
        /\ ~out.done.raised
        /\ out.done.rolled_back =>
              /\ users = out.before
              /\ out.done.value \in
                    { [success |-> FALSE, error |-> "Failed to manage user profile"],
                      [success |-> FALSE, error |-> "Failed to update user"] }


(* s without its leading whitespace *)
RECURSIVE LeftTrimmed(_)
LeftTrimmed(s) ==
    IF s # << >> /\ Head(s) \in {" ", "\t", "\n"} THEN LeftTrimmed(Tail(s)) ELSE s

(* s without its trailing whitespace *)
RECURSIVE RightTrimmed(_)
RightTrimmed(s) ==
    IF s # << >> /\ s[Len(s)] \in {" ", "\t", "\n"}
    THEN RightTrimmed(SubSeq(s, 1, Len(s) - 1))
    ELSE s

(* first and last are the text before and after the first space of the     *)
(* trimmed name, last being empty when there is no space                   *)
SplitAtFirstSpace(name, first, last) ==
    LET trimmed == RightTrimmed(LeftTrimmed(name))
        spaces  == {i \in 1..Len(trimmed) : trimmed[i] = " "}
    IN  IF spaces = {}
        THEN first = trimmed /\ last = << >>
        ELSE /\ first = SubSeq(trimmed, 1, Min(spaces) - 1)
             /\ last = SubSeq(trimmed, Min(spaces) + 1, Len(trimmed))
             /\ first \o <<" ">> \o last = trimmed

(* C18: update_profile with a 'name' key stores as first_name the text     *)
(* before the first space of the trimmed name and as last_name all text    *)
(* after it (empty when there is no space), so that for a name with a      *)
(* space first_name + ' ' + last_name is the trimmed name; send_magic_link *)
(* sends the same two parts of a non-empty full_name.                      *)
C18_NameSplit ==
    /\ (/\ out.op = "update_profile"
        /\ out.args.updates.name # None
        /\ out.done.value.success)
       => \E row \in users :
             /\ row.auth_user_id = out.args.user_id
             /\ row = out.done.value.profile
             /\ row.first_name # None /\ row.last_name # None
             /\ SplitAtFirstSpace(out.args.updates.name[1],
                                  row.first_name[1], row.last_name[1])
    /\ (/\ out.op \in {"MagicLinkService.send_magic_link", "send_magic_link"}
        /\ out.args # None
        /\ out.args[1] # << >>)
       => LET data == out.done.requests[1].data
          IN  SplitAtFirstSpace(out.args[1], data.first_name, data.last_name)

(* C18 witness: update_profile stored a name of three words with a double  *)
(* blank as its first word and the whole rest                              *)
C18_Witness ==
    /\ out.op = "update_profile"
    /\ out.args.updates.name = Some(<<" ","A","n","n"," "," ","L","e","e"," ","R","o","y"," ">>)
    /\ out.done.value.success
    /\ \E row \in users :
          /\ row.first_name = Some(<<"A","n","n">>)
          /\ row.last_name = Some(<<" ","L","e","e"," ","R","o","y">>)

-----------------------------------------------------------------------------
(* Properties of two callers sharing one detector without a lock *)

(* the callers that are inside a call and have not counted it yet *)
Uncounted ==
    {t \in Threads : pc[t] \in {"test", "classify", "count", "hit_count",
                                "hit_total"}}

(* C19: the cache is unsynchronized.  When the statements of two           *)
(* detect_from_email calls interleave, a call can end with an exception    *)
(* because the other call removed the entry first, and the cache can end   *)
(* above the CacheLimit + 1 entries that calls made one after the other    *)
(* keep; both happen only to calls that overlapped.  Statements being      *)
(* atomic, every started call is counted once in total_detections.         *)
C19_RaceOnlyWhenOverlapped ==
    /\ \A t \in Threads : pc[t] = "raised" => frame[t].overlapped
    /\ Len(cache) > CacheLimit + 1 => \E t \in Threads : frame[t].overlapped
    /\ metrics.total_detections + Cardinality(Uncounted) = calls

(* C19 witness: a caller's deletion of the oldest entry failed with        *)
(* KeyError because the other caller had already removed that entry        *)
C19_Witness ==
    \E t \in Threads :
        /\ pc[t] = "raised"
        /\ frame[t].error = Some("KeyError")
        /\ frame[t].first_key = Some(Filler(1))
        /\ Filler(1) \notin Keys(cache)
        /\ frame[Other(t)].first_key = Some(Filler(1))
        /\ pc[Other(t)] \in {"store", "idle"}

-----------------------------------------------------------------------------
(* Properties of the content test of send_email and of send_batch *)

(* C21: send_email called with neither html nor text content returns       *)
(* success false with the error "Either HTML or text content is required"  *)
(* and sends no request to the email API, and every request that           *)
(* send_email or send_batch sends carries html or text.                    *)
C21_ContentRequired ==
    /\ (/\ out.op = "send_email"
        /\ ~TruthyText(out.args.html)
        /\ ~TruthyText(out.args.text))
       => /\ out.done.requests = << >>
          /\ ~out.done.raised
          /\ out.done.value =
                 EmailResult(FALSE, None,
                             Some("Either HTML or text content is required"))
    /\ out.op \in {"send_email", "send_batch", "send_completion_email",
                   "ResendService.send_magic_link"}
       => \A i \in 1..Len(out.done.requests) :
              \/ TruthyText(out.done.requests[i].html)
              \/ TruthyText(out.done.requests[i].text)

(* C21 witness: send_email was called with an empty html body and no text  *)
(* while the email API would have accepted a request, and returned the     *)
(* content error without sending one                                       *)
C21_Witness ==
    /\ out.op = "send_email"
    /\ out.args.html = Some("")
    /\ out.args.text = None
    /\ ~out.responses[1].raises
    /\ out.done.requests = << >>
    /\ out.done.value.error = Some("Either HTML or text content is required")

(* the email parameters hold a body that send_email sends *)
HasContent(email) == TruthyText(email.html) \/ TruthyText(email.text)

(* how many of the first n emails of the list reach the email API *)
Sends(emails, n) == Cardinality({j \in 1..n : HasContent(emails[j])})

(* C22: send_batch returns one result per email of its input, at the       *)
(* position of that email, and attempts every email in order: an email     *)
(* without content gets the content error, every other email is sent to    *)
(* the API after the ones before it and gets the result of its own         *)
(* request, whether or not an earlier email failed.                        *)
C22_BatchAttemptsAll ==
    out.op = "send_batch" =>
        LET emails  == out.args
            results == out.done.value
        IN  /\ ~out.done.raised
            /\ Len(results) = Len(emails)
            /\ Len(out.done.requests) = Sends(emails, Len(emails))
            /\ \A i \in 1..Len(emails) :
                   IF ~HasContent(emails[i])
                   THEN results[i] =
                            EmailResult(FALSE, None,
                                Some("Either HTML or text content is required"))
                   ELSE LET k == Sends(emails, i)
                            response == out.responses[k]
                        IN  /\ out.done.requests[k].to = <<emails[i].to>>
                            /\ results[i] =
                                   IF response.raises
                                   THEN EmailResult(FALSE, None,
                                                    Some(response.message))
                                   ELSE EmailResult(TRUE, response.id, None)

(* C22 witness: a batch of two different emails whose first send was       *)
(* refused by the API and whose second send, made after it, succeeded      *)
C22_Witness ==
    /\ out.op = "send_batch"
    /\ Len(out.args) = 2
    /\ out.args[1].to # out.args[2].to
    /\ out.responses[1].raises
    /\ Len(out.done.requests) = 2
    /\ Len(out.done.value) = 2
    /\ ~out.done.value[1].success
    /\ out.done.value[2].success

-----------------------------------------------------------------------------
(* The cache is transparent *)

(* what a detector without the cache returns: the result the rules build   *)
(* from the address alone                                                  *)
WithoutCache(email) == Some(Classify(email))

(* C23: whatever calls, evictions and clear_cache calls came before, the   *)
(* result detect_from_email returns for an address equals the result a     *)
(* detector without the cache returns for it, and every cached result is   *)
(* the one the rules build for its key.                                    *)
C23_CacheTransparent ==
    /\ ret.op = "detect" => ret.value = WithoutCache(ret.email)
    /\ \A i \in 1..Len(cache) :
           cache[i].key \in Emails =>
               Some(cache[i].value) = WithoutCache(cache[i].key)

(* C23 witness: on a full cache that has evicted its oldest entry, a call  *)
(* for an address detected before was answered from the cache with a       *)
(* result that is not the one of the oldest entry                          *)
C23_Witness ==
    /\ ret.op = "detect"
    /\ ret.hit
    /\ warmed = CacheLimit
    /\ Len(cache) > CacheLimit
    /\ cache[1].key # Filler(1)
    /\ ret.value[1].type = "educational"
    /\ cache[1].value.type # "educational"

-----------------------------------------------------------------------------
(* get_or_create_profile is idempotent *)

(* the rows of the table that belong to the user identifier *)
RowsOf(table, user_id) == {row \in table : row.auth_user_id = user_id}

(* C24: for sequential calls, a successful get_or_create_profile for an    *)
(* identifier with no row creates exactly one row for it and returns that  *)
(* row with is_new true; a call for an identifier that has a row changes   *)
(* nothing and, when it succeeds, returns that row with is_new false; and  *)
(* the users table never holds two rows for one identifier.                *)
C24_GetOrCreateIdempotent ==
    /\ \A user_id \in UserIds : Cardinality(RowsOf(users, user_id)) <= 1
    /\ out.op = "get_or_create_profile" =>
           LET user_id == out.args.user_id
               found   == RowsOf(out.before, user_id)
               value   == out.done.value
           IN  /\ (found = {} /\ value.success) =>
                      /\ value.is_new
                      /\ value.profile.auth_user_id = user_id
                      /\ users = out.before \cup {value.profile}
                      /\ Cardinality(users) = Cardinality(out.before) + 1
               /\ found # {} =>
                      /\ users = out.before
                      /\ value.success =>
                             /\ ~value.is_new
                             /\ found = {value.profile}

(* C24 witness: a second call for an identifier, made with other metadata  *)
(* than the call that created its row, returned the row as it was created  *)
(* with is_new false while another identifier has its own row              *)
C24_Witness ==
    /\ out.op = "get_or_create_profile"
    /\ out.args.metadata # None
    /\ out.done.value.success
    /\ ~out.done.value.is_new
    /\ out.done.value.profile.first_name = None
    /\ out.done.value.profile.auth_user_id = out.args.user_id
    /\ Cardinality(users) = 2
    /\ users = out.before

====
